---- MODULE Spec2Model ----
(***************************************************************************)
(* DriveIQ document retrieval engine: ingestion of PDF documents into the  *)
(* relational chunk table (pgvector) and the Qdrant collection, deletion,  *)
(* query-intent classification and hybrid (semantic + keyword) search.     *)
(*                                                                         *)
(* Texts are TLA+ strings; a character is a string of length 1.  Scores    *)
(* are fixed-point: semantic and keyword scores in units of 1/10000,       *)
(* combined scores and thresholds in units of 1/100000, so that            *)
(* 0.7 * semantic + 0.3 * keyword is the integer 7 * sem + 3 * kw.         *)
(***************************************************************************)
EXTENDS Integers, Sequences, FiniteSets, Bags, TLC

(***************************************************************************)
(* Strings                                                                 *)
(***************************************************************************)
Char(s, i) == SubSeq(s, i, i)

UPPER == "ABCDEFGHIJKLMNOPQRSTUVWXYZ"

LOWER == "abcdefghijklmnopqrstuvwxyz"

DIGITS == "0123456789"

CharsOf(s) == {Char(s, i) : i \in 1..Len(s)}

UpperChars == CharsOf(UPPER)

LowerChars == CharsOf(LOWER)

DigitChars == CharsOf(DIGITS)

\* \s of the re module, over the characters the model's texts use
SpaceChars == {" ", "\n", "\t"}

IsSpace(c) == c \in SpaceChars

IsDigit(c) == c \in DigitChars

\* \w of the re module, over ASCII
WordChars == UpperChars \cup LowerChars \cup DigitChars \cup {"_"}

IsWordChar(c) == c \in WordChars

LowerChar(c) ==
    IF c \in UpperChars
    THEN Char(LOWER, CHOOSE i \in 1..Len(UPPER) : Char(UPPER, i) = c)
    ELSE c

RECURSIVE StrLower(_)
\* str.lower()
StrLower(s) ==
    IF Len(s) = 0 THEN s
    ELSE IF Len(s) = 1 THEN LowerChar(s)
    ELSE LET h == Len(s) \div 2
         IN StrLower(SubSeq(s, 1, h)) \o StrLower(SubSeq(s, h + 1, Len(s)))

MinOf(S) == CHOOSE x \in S : \A y \in S : x <= y

MaxOf(S) == CHOOSE x \in S : \A y \in S : x >= y

\* str.strip(): leading and trailing whitespace removed
StrStrip(s) ==
    LET keep == {i \in 1..Len(s) : ~IsSpace(Char(s, i))}
    IN IF keep = {} THEN "" ELSE SubSeq(s, MinOf(keep), MaxOf(keep))

\* str.startswith(p)
StartsWith(s, p) == Len(s) >= Len(p) /\ SubSeq(s, 1, Len(p)) = p

\* p occurs in s at position i
OccursAt(s, p, i) == i >= 1 /\ i + Len(p) - 1 <= Len(s) /\ SubSeq(s, i, i + Len(p) - 1) = p

\* the Python test `p in s`
StrContains(s, p) == \E i \in 1..(Len(s) - Len(p) + 1) : OccursAt(s, p, i)

\* len(s.split()): the number of maximal runs of non-whitespace characters
SplitCount(s) ==
    Cardinality({i \in 1..Len(s) :
        /\ ~IsSpace(Char(s, i))
        /\ (i = 1 \/ IsSpace(Char(s, i - 1)))})

\* the position just after the run of characters of a class that starts at i
\* (i itself when s[i] is not in the class)
RunEnd(s, i, class) ==
    LET stops == {k \in i..Len(s) : Char(s, k) \notin class}
    IN IF stops = {} THEN Len(s) + 1 ELSE MinOf(stops)

\* set(re.findall(r'\b\w+\b', s)): the maximal runs of word characters
WordSet(s) ==
    LET starts == {i \in 1..Len(s) :
                     /\ IsWordChar(Char(s, i))
                     /\ (i = 1 \/ ~IsWordChar(Char(s, i - 1)))}
    IN {SubSeq(s, i, RunEnd(s, i, WordChars) - 1) : i \in starts}

\* re's ^(alt)\b at the start of s: alt is a prefix and a word boundary follows it
\* (every alternative of the patterns ends in a word character)
PrefixWord(s, alt) ==
    /\ StartsWith(s, alt)
    /\ (Len(s) = Len(alt) \/ ~IsWordChar(Char(s, Len(alt) + 1)))

(***************************************************************************)
(* Query intent (enhanced_search.py)                                       *)
(***************************************************************************)
VEHICLE_TECHNICAL == "vehicle_technical"

VEHICLE_GENERAL == "vehicle_general"

CONVERSATIONAL == "conversational"

OFF_TOPIC == "off_topic"

QueryIntent == {VEHICLE_TECHNICAL, VEHICLE_GENERAL, CONVERSATIONAL, OFF_TOPIC}

VEHICLE_KEYWORDS ==
    { "oil", "filter", "change", "service", "maintenance", "schedule", "interval",
      "fluid", "replace", "tire", "rotation", "brake", "transmission", "coolant",
      "spark plug", "battery", "wiper", "alignment", "tune-up",
      "spec", "capacity", "towing", "payload", "engine", "horsepower", "torque",
      "mpg", "fuel", "4wd", "awd", "differential", "suspension", "electrical",
      "fuse", "relay", "sensor", "diagnostic", "warning light", "dashboard",
      "airbag", "abs", "traction", "stability", "recall", "emergency", "seatbelt",
      "child seat", "hazard",
      "bluetooth", "navigation", "cruise control", "climate", "air conditioning",
      "heater", "radio", "speaker", "camera", "parking", "mirror", "seat",
      "window", "door", "lock", "key", "remote", "start",
      "manual", "owner", "guide", "how to", "how do i", "where is", "what is",
      "reset", "turn on", "turn off", "activate", "deactivate" }

\* the alternatives of the five ^(...)\b patterns
CONVERSATIONAL_PATTERNS ==
    { "hi", "hello", "hey", "greetings", "good morning", "good afternoon", "good evening",
      "thanks", "thank you", "thx", "ty",
      "bye", "goodbye", "see you", "later",
      "how are you", "what's up", "sup",
      "who are you", "what are you", "tell me about yourself" }

\* the strings the five unanchored patterns match
VEHICLE_GENERAL_PATTERNS ==
    { "what color is my", "what colour is my",
      "what year is my",
      "what model is my",
      "what is my vin",
      "tell me about my car", "tell me about my vehicle",
      "tell me about my 4runner", "tell me about my truck" }

question_starters == {"how", "what", "where", "when", "why", "can i", "should i", "do i"}

MatchesConversational(q) == \E alt \in CONVERSATIONAL_PATTERNS : PrefixWord(q, alt)

MatchesVehicleGeneral(q) == \E pat \in VEHICLE_GENERAL_PATTERNS : StrContains(q, pat)

KeywordMatches(q) == Cardinality({kw \in VEHICLE_KEYWORDS : StrContains(q, kw)})

StartsWithQuestion(q) == \E qs \in question_starters : StartsWith(q, qs)

\* a classification that looks for keywords and question words first
classify_keywords_first(query) ==
    LET query_lower == StrStrip(StrLower(query))
    IN IF KeywordMatches(query_lower) >= 1 THEN VEHICLE_TECHNICAL
       ELSE IF StartsWithQuestion(query_lower) THEN VEHICLE_TECHNICAL
       ELSE IF MatchesConversational(query_lower) THEN CONVERSATIONAL
       ELSE IF MatchesVehicleGeneral(query_lower) THEN VEHICLE_GENERAL
       ELSE IF SplitCount(query_lower) <= 3 THEN CONVERSATIONAL
       ELSE VEHICLE_TECHNICAL

classify_query_intent(query) ==
    LET query_lower == StrStrip(StrLower(query))
    IN IF MatchesConversational(query_lower) THEN CONVERSATIONAL
       ELSE IF MatchesVehicleGeneral(query_lower) THEN VEHICLE_GENERAL
       ELSE IF KeywordMatches(query_lower) >= 1 THEN VEHICLE_TECHNICAL
       ELSE IF StartsWithQuestion(query_lower) THEN VEHICLE_TECHNICAL
       ELSE IF SplitCount(query_lower) <= 3 THEN CONVERSATIONAL
       ELSE VEHICLE_TECHNICAL

(***************************************************************************)
(* Table-of-contents detection and keyword score (enhanced_search.py)      *)
(***************************************************************************)
\* a digit follows position j after optional whitespace: \s*\d+ matches at j
SpacesThenDigit(s, j) ==
    LET k == RunEnd(s, j, SpaceChars)
    IN k <= Len(s) /\ IsDigit(Char(s, k))

\* len(re.findall(r'(?:→\s*)?P\.\s*\d+', content)): a match holds exactly one "P."
\* followed by \s*\d+, and two matches cannot overlap, so the matches are counted
\* by the positions of their "P."
PRefCount(content) ==
    Cardinality({i \in 1..Len(content) :
        OccursAt(content, "P.", i) /\ SpacesThenDigit(content, i + 2)})

\* len(re.findall(r'\.{3,}\s*\d+', content)): a match starts at a run of three or
\* more dots and must take the run to its end, so every maximal run of dots of
\* length >= 3 that \s*\d+ follows holds exactly one match
DotRefCount(content) ==
    LET IsDot(c) == c = "."
    IN Cardinality({i \in 1..Len(content) :
        /\ IsDot(Char(content, i))
        /\ (i = 1 \/ ~IsDot(Char(content, i - 1)))
        /\ RunEnd(content, i, {"."}) - i >= 3
        /\ SpacesThenDigit(content, RunEnd(content, i, {"."}))})

TOC_MARKERS == {"pictorial index", "table of contents", "alphabetical index"}

\* page_refs / word_count > 0.03 is 100 * page_refs > 3 * word_count
is_toc_or_index_page(content) ==
    LET page_refs == PRefCount(content) + DotRefCount(content)
        word_count == SplitCount(content)
        lower == StrLower(content)
    IN \/ (word_count > 0 /\ page_refs >= 4 /\ 100 * page_refs > 3 * word_count)
       \/ \E marker \in TOC_MARKERS : StrContains(lower, marker)

stop_words ==
    { "the", "a", "an", "is", "are", "was", "were", "be", "been",
      "being", "have", "has", "had", "do", "does", "did", "will",
      "would", "could", "should", "may", "might", "must", "can",
      "to", "of", "in", "for", "on", "with", "at", "by", "from",
      "it", "this", "that", "these", "those", "i", "you", "he",
      "she", "we", "they", "my", "your", "his", "her", "our", "their" }

\* in units of 1/10000 (the quotient is cut where the float is rounded)
calculate_keyword_score(query, content) ==
    LET query_words == WordSet(StrLower(query)) \ stop_words
        content_words == WordSet(StrLower(content)) \ stop_words
        matches == query_words \cap content_words
    IN IF query_words = {} THEN 0
       ELSE (Cardinality(matches) * 10000) \div Cardinality(query_words)

(***************************************************************************)
(* File names (api/uploads.py)                                             *)
(***************************************************************************)
\* the characters re.sub(r'[^\w\s\-\.]', '', ...) keeps
IsSafeChar(c) == IsWordChar(c) \/ IsSpace(c) \/ c \in {"-", "."}

RECURSIVE KeepSafeChars(_)
\* the safe characters of s, in order
KeepSafeChars(s) ==
    IF Len(s) = 0 THEN s
    ELSE IF Len(s) = 1 THEN (IF IsSafeChar(s) THEN s ELSE "")
    ELSE LET h == Len(s) \div 2
         IN KeepSafeChars(SubSeq(s, 1, h)) \o KeepSafeChars(SubSeq(s, h + 1, Len(s)))

\* os.path.basename: what follows the last "/"
Basename(filename) ==
    LET slashes == {i \in 1..Len(filename) : Char(filename, i) = "/"}
    IN IF slashes = {} THEN filename
       ELSE SubSeq(filename, MaxOf(slashes) + 1, Len(filename))

\* str.lstrip('.')
LStripDots(s) == SubSeq(s, RunEnd(s, 1, {"."}), Len(s))

\* uploads.sanitize_filename: basename, re.sub(r'[^\w\s\-\.]', '', ...), lstrip('.')
sanitize_filename(filename) == LStripDots(KeepSafeChars(Basename(filename)))

\* pathlib's Path(filename).stem of a name without directories
PathStem(filename) ==
    LET dots == {i \in 1..Len(filename) : Char(filename, i) = "."}
    IN IF dots = {} \/ MaxOf(dots) = 1 \/ MaxOf(dots) = Len(filename) THEN filename
       ELSE SubSeq(filename, 1, MaxOf(dots) - 1)

\* uploads.get_document_type: the type given to an uploaded document
get_document_type(filename) ==
    LET lower == StrLower(filename)
        stem == StrLower(PathStem(filename))
    IN IF StrContains(lower, "carfax") THEN "carfax"
       ELSE IF StrContains(lower, "manual") \/ StartsWith(stem, "om") THEN "manual"
       ELSE IF StrContains(lower, "qrg") \/ StrContains(lower, "quick reference") THEN "qrg"
       ELSE IF StrContains(lower, "maintenance") THEN "maintenance_report"
       ELSE IF StrContains(lower, "receipt") THEN "receipt"
       ELSE "other"

KEEP_ON_DISK_TYPES == {"manual", "qrg"}

\* the type ingest_all_documents gives to a file of the upload directory
BulkDocumentType(filename) ==
    LET filename_lower == StrLower(filename)
    IN IF StrContains(filename_lower, "qrg") \/ StrContains(filename_lower, "quick") THEN "qrg"
       ELSE IF StrContains(filename_lower, "maintenance") THEN "maintenance_report"
       ELSE IF StrContains(filename_lower, "carfax") THEN "vehicle_history"
       ELSE IF StrContains(filename_lower, "certified") \/ StrContains(filename_lower, "dealer")
            THEN "dealer_listing"
       ELSE "manual"

(***************************************************************************)
(* Chunking and topic tagging (services/document_ingestion.py)             *)
(***************************************************************************)
DEFAULT_CHUNK_SIZE == 1000

DEFAULT_OVERLAP == 200

MIN_PAGE_CHARS == 50

\* the position a slice index i stands for in a text of length n: a negative
\* index counts from the end, and the result is cut to 0..n
PyIndex(i, n) ==
    IF i < 0 THEN (IF i + n < 0 THEN 0 ELSE i + n)
    ELSE IF i > n THEN n ELSE i

\* text[start:end] of Python, 0-based and end-exclusive
Slice(text, start, end) ==
    SubSeq(text, PyIndex(start, Len(text)) + 1, PyIndex(end, Len(text)))

\* text.rfind(punct, start, end): the highest 0-based index i with
\* start <= i, i + len(punct) <= end and text[i:i+len(punct)] = punct; -1 if none
RFind(text, punct, start, end) ==
    LET hits == {i \in PyIndex(start, Len(text))..(PyIndex(end, Len(text)) - Len(punct)) :
                   OccursAt(text, punct, i + 1)}
    IN IF hits = {} THEN -1 ELSE MaxOf(hits)

SENTENCE_ENDS == <<". ", ".\n", "! ", "!\n", "? ", "?\n">>

\* the window end: the first punctuation kind, in the order of the list, whose last
\* occurrence in the window lies beyond half the chunk size moves the end
WindowEnd(text, start, chunk_size) ==
    LET end == start + chunk_size
        Good(k) == RFind(text, SENTENCE_ENDS[k], start, end) > start + chunk_size \div 2
        good == {k \in 1..Len(SENTENCE_ENDS) : Good(k)}
    IN IF end < Len(text) /\ good # {}
       THEN RFind(text, SENTENCE_ENDS[MinOf(good)], start, end) + 1
       ELSE end

\* a step that leaves a gap of overlap characters after a window
NextStartSkipping(end, overlap) == end + overlap

\* start = end - overlap
NextStart(end, overlap) == end - overlap

\* chunks.append(chunk) under `if chunk`
AppendChunk(chunks, chunk) == IF chunk # "" THEN Append(chunks, chunk) ELSE chunks

RECURSIVE ChunkLoop(_, _, _, _, _)
\* the while loop of chunk_text
ChunkLoop(text, start, chunk_size, overlap, chunks) ==
    IF start < Len(text)
    THEN LET end == WindowEnd(text, start, chunk_size)
             chunk == StrStrip(Slice(text, start, end))
         IN ChunkLoop(text, NextStart(end, overlap), chunk_size, overlap,
                      AppendChunk(chunks, chunk))
    ELSE chunks

chunk_text(text, chunk_size, overlap) ==
    IF Len(text) <= chunk_size THEN <<text>>
    ELSE ChunkLoop(text, 0, chunk_size, overlap, <<>>)

TOPIC_ORDER == <<"maintenance", "technical", "safety", "operation", "features">>

TOPIC_KEYWORDS(topic) ==
    CASE topic = "maintenance" ->
           { "oil", "filter", "fluid", "tire", "brake", "coolant", "transmission",
             "maintenance", "service", "interval", "schedule", "inspect", "replace",
             "lubrication", "rotation", "alignment", "battery", "wiper", "belt",
             "differential", "transfer case", "spark plug", "air filter", "cabin filter" }
      [] topic = "technical" ->
           { "engine", "horsepower", "torque", "specification", "capacity", "dimension",
             "towing", "payload", "electrical", "fuse", "wiring", "sensor", "ecu",
             "transmission", "drivetrain", "suspension", "steering", "exhaust",
             "compression", "displacement", "rpm", "voltage", "amperage", "cylinder" }
      [] topic = "safety" ->
           { "warning", "danger", "caution", "airbag", "seatbelt", "abs", "traction",
             "stability", "brake", "emergency", "hazard", "recall", "safety",
             "collision", "impact", "restraint", "child seat", "latch", "anchor" }
      [] topic = "operation" ->
           { "drive", "start", "stop", "park", "shift", "accelerate", "steering",
             "control", "switch", "button", "dial", "display", "meter", "gauge",
             "indicator", "light", "signal", "horn", "mirror", "seat", "window" }
      [] topic = "features" ->
           { "navigation", "audio", "bluetooth", "climate", "cruise", "4wd", "awd",
             "crawl control", "multi-terrain", "kinetic", "locking", "feature",
             "system", "mode", "setting", "option", "comfort", "convenience" }

\* detect_topics without text.lower()
detect_topics_cased(text) ==
    LET Matches(topic) == Cardinality({kw \in TOPIC_KEYWORDS(topic) : StrContains(text, kw)})
        Tagged(topic) == Matches(topic) >= 2
        detected_topics == SelectSeq(TOPIC_ORDER, Tagged)
    IN IF detected_topics = <<>> THEN <<"general">> ELSE detected_topics

detect_topics(text) ==
    LET text_lower == StrLower(text)
        Matches(topic) == Cardinality({kw \in TOPIC_KEYWORDS(topic) : StrContains(text_lower, kw)})
        Tagged(topic) == Matches(topic) >= 2
        detected_topics == SelectSeq(TOPIC_ORDER, Tagged)
    IN IF detected_topics = <<>> THEN <<"general">> ELSE detected_topics

(***************************************************************************)
(* Chapter headers (extract_chapter_section).  A match of one of           *)
(* CHAPTER_PATTERNS is the first the backtracking matcher finds: every     *)
(* greedy item takes as much as it can while one character is left for the *)
(* final (.+), since every item after the number is optional.              *)
(***************************************************************************)
\* Python's None for the chapter of a chunk; a chapter made of a match is
\* never empty, and `if chapter:` treats both alike
NoChapter == ""

\* the lines of a page that are inspected
HEADER_LINES == 10

RECURSIVE SplitLines(_)
\* str.split('\n')
SplitLines(text) ==
    LET breaks == {i \in 1..Len(text) : Char(text, i) = "\n"}
    IN IF breaks = {} THEN <<text>>
       ELSE <<SubSeq(text, 1, MinOf(breaks) - 1)>>
                \o SplitLines(SubSeq(text, MinOf(breaks) + 1, Len(text)))

\* the classes [-–] and [-–:] of the patterns; the en dash is in no text followed
DASH == {"-"}

DASH_COLON == {"-", ":"}

\* the length of a greedy run (\d*, \s*) from position i that leaves the last
\* character of the line to (.+)
GreedyRun(line, i, class) ==
    LET n == RunEnd(line, i, class) - i
        room == Len(line) - i
    IN IF n <= room THEN n ELSE IF room < 0 THEN 0 ELSE room

\* the length of an optional character ([-–]?) at position i
GreedyOpt(line, i, class) == IF i < Len(line) /\ Char(line, i) \in class THEN 1 ELSE 0

\* the position where group 2 starts after \s*[dashes]?\s* from position i
TailStart(line, i, dashes) ==
    LET j == i + GreedyRun(line, i, SpaceChars)
        k == j + GreedyOpt(line, j, dashes)
    IN k + GreedyRun(line, k, SpaceChars)

\* re.match(r"^(\d+[-–]?\d*)\s*[-–]?\s*(.+)$", line): <<group 1, group 2>>, or
\* <<>> when the line does not match
MatchNumbered(line) ==
    LET a == 1 + GreedyRun(line, 1, DigitChars)
        b == a + GreedyOpt(line, a, DASH)
        c == b + GreedyRun(line, b, DigitChars)
        t == TailStart(line, c, DASH)
    IN IF a = 1 THEN <<>>
       ELSE <<SubSeq(line, 1, c - 1), SubSeq(line, t, Len(line))>>

\* re.match(r"^(word\s+\d+)\s*[-–:]?\s*(.+)$", line, re.IGNORECASE)
MatchKeyword(line, word) ==
    LET s == Len(word) + 1
        a == RunEnd(line, s, SpaceChars)
        c == a + GreedyRun(line, a, DigitChars)
        t == TailStart(line, c, DASH_COLON)
    IN IF StartsWith(StrLower(line), word) /\ a > s /\ c > a
       THEN <<SubSeq(line, 1, c - 1), SubSeq(line, t, Len(line))>>
       ELSE <<>>

\* the matches of the three CHAPTER_PATTERNS, in their order
CHAPTER_PATTERNS(line) ==
    <<MatchNumbered(line), MatchKeyword(line, "section"), MatchKeyword(line, "chapter")>>

\* the chapter the first matching pattern gives for a stripped line
ChapterOfLine(line) ==
    LET Matched(match) == match # <<>>
        found == SelectSeq(CHAPTER_PATTERNS(line), Matched)
    IN IF found = <<>> THEN NoChapter
       ELSE StrStrip(found[1][1] \o " - " \o found[1][2])

RECURSIVE ChapterLoop(_, _, _)
\* the loop over lines[:10]: a later matching line replaces the chapter
ChapterLoop(lines, k, chapter) ==
    IF k > Len(lines) \/ k > HEADER_LINES THEN chapter
    ELSE LET line == StrStrip(lines[k])
             found == IF line = "" THEN NoChapter ELSE ChapterOfLine(line)
         IN ChapterLoop(lines, k + 1, IF found # NoChapter THEN found ELSE chapter)

\* the chapter extract_chapter_section returns for the text of a page
extract_chapter_section(text) == ChapterLoop(SplitLines(text), 1, NoChapter)

(***************************************************************************)
(* Embeddings and similarity                                               *)
(*                                                                         *)
(* The sentence-transformers encoder is an external model: a deterministic *)
(* function from a text to a vector.  Here it maps a text to one of a few  *)
(* integer vectors of norm 25 by the vocabulary the text uses, so that the *)
(* cosine similarity of two vectors is their dot product over 625.         *)
(***************************************************************************)
ENGINE_WORDS == {"engine", "oil", "filter"}

CHASSIS_WORDS == {"brake", "pads", "tire"}

\* model.encode(text)
Encode(text) ==
    LET words == WordSet(StrLower(text))
        e == Cardinality(words \cap ENGINE_WORDS)
        c == Cardinality(words \cap CHASSIS_WORDS)
    IN IF e = 0 /\ c = 0 THEN <<15, 20>>
       ELSE IF c = 0 THEN <<25, 0>>
       ELSE IF e = 0 THEN <<0, 25>>
       ELSE IF e > c THEN <<24, 7>>
       ELSE IF c > e THEN <<7, 24>>
       ELSE <<20, 15>>

\* 1 - (embedding <=> query): the cosine similarity, in units of 1/10000
CosineSimilarity(a, b) == (a[1] * b[1] + a[2] * b[2]) * 16

(***************************************************************************)
(* The corpus the model draws its documents from                           *)
(***************************************************************************)
PAGE_TOC == "Table of Contents  Engine oil P. 10  Brake fluid P. 20  Tire pressure P. 30"

PAGE_INDEX == "Engine oil ..... 12 Oil filter ..... 14 Brake pads ..... 18 Tire rotation ..... 22"

PAGE_OIL == "Change the engine oil and the oil filter every 5000 miles or 6 months."

PAGE_OIL2 == "The engine oil capacity is 6.6 quarts when the oil filter is changed too."

PAGE_BRAKE == "Inspect the brake pads and the brake fluid level at every oil change."

PAGE_BLANK == "Notes"

\* pages of a manual with chapter headers: a header in each form the patterns
\* name, a divider page that holds its header only, a page with two headers
\* and one whose header is below the lines inspected
PAGE_CHAPTER == "Chapter 3: Maintenance\nChange the engine oil and the oil filter at every service."

PAGE_NUMBERED == "\n 1-1 Before Driving\nAdjust the seat and the mirror before you start the engine."

PAGE_DIVIDER == "SECTION 2 - Brakes"

PAGE_TWO_HEADERS == "Section 4 Towing\nchapter 5 - Tires\nCheck the tire pressure before towing a trailer."

PAGE_LATE_HEADER == "Specifications\n\n\n\n\n\n\n\n\n\n12 Index of the specifications of the engine"

\* a PDF is the sequence of the texts of its pages
PDF_MANUAL == <<PAGE_TOC, PAGE_OIL>>

PDF_MANUAL_REVISED == <<PAGE_INDEX, PAGE_OIL2, PAGE_BLANK>>

PDF_REPORT == <<PAGE_BRAKE>>

\* the pages the PDFs with chapters are made of, and those PDFs: every
\* sequence of one to MaxPages of the pages
ChapterPages ==
    { PAGE_CHAPTER, PAGE_NUMBERED, PAGE_DIVIDER, PAGE_TWO_HEADERS, PAGE_LATE_HEADER,
      PAGE_BRAKE, PAGE_BLANK }

MaxPages == 3

ChapterPdfs == UNION {[1..n -> ChapterPages] : n \in 1..MaxPages}

\* the uploads a client makes: the file name it sends and the PDF
Uploads == {<<"om$.pdf", PDF_MANUAL_REVISED>>, <<"docs/carfax.pdf", PDF_REPORT>>}

\* the file names a client asks to delete
DeleteNames == {"om$.pdf", "carfax.pdf"}

\* the uploads whose ingestion filled the stores a search runs over
SeedUploads == Uploads \cup {<<"om.pdf", PDF_MANUAL>>}

\* the queries clients send
SearchQueries == {"how often should I change the oil", "oil change", "brake pads"}

ChatQueries ==
    { "how often should I change the oil", "brake pads", "hello there",
      "what color is my car", "ok thanks bye" }

\* the result limits callers pass (chat passes 3)
Limits == {1, 3}

RELEVANCE_THRESHOLD == 35000

\* the thresholds callers pass: the default and a lower one (0.2)
MinScores == {RELEVANCE_THRESHOLD, 20000}

\* the number of chunks a store may hold while documents come and go
MaxChunks == 4

\* the number of uploads and deletions that precede a search
MaxRequests == 3

\* the parts the classified queries are made of: an opening that one of the
\* conversational patterns matches, a question one of the vehicle_general
\* patterns matches, and a remainder with keywords and question words
Openings == {"", "Hello ", "  thanks, ", "good morning! ", "how are you? ", "see you "}

GeneralQuestions ==
    {"", "what color is my car ", "What is my VIN ", "tell me about my truck "}

Remainders ==
    {"", "ok", "oil change", "how do i reset the radio", "where", "nice weather again today"}

(***************************************************************************)
(* The pure functions over the corpus.  Each is evaluated once for every   *)
(* text it can be applied to and looked up by the handlers afterwards.     *)
(***************************************************************************)
Range(f) == {f[x] : x \in DOMAIN f}

\* the function f as an explicit table: TLC evaluates the body of
\* [x \in S |-> e] anew at every application, and the body once per argument
\* when the function is combined into a table
Tabulated(f) == f @@ <<>>

Pages == UNION {Range(u[2]) : u \in SeedUploads} \cup ChapterPages

Queries == SearchQueries \cup ChatQueries

RequestNames == {u[1] : u \in SeedUploads} \cup DeleteNames

ChunksOfPage ==
    Tabulated([text \in Pages |-> chunk_text(text, DEFAULT_CHUNK_SIZE, DEFAULT_OVERLAP)])

ChunkTexts == UNION {Range(ChunksOfPage[text]) : text \in Pages}

ExtractablePage ==
    Tabulated([text \in Pages |-> ~(text = "" \/ Len(StrStrip(text)) < MIN_PAGE_CHARS)])

ChapterOfPage == Tabulated([text \in Pages |-> extract_chapter_section(text)])

TopicsOf == Tabulated([content \in ChunkTexts |-> detect_topics(content)])

TokensOf == Tabulated([content \in ChunkTexts |-> SplitCount(content)])

EmbeddingOf == Tabulated([text \in ChunkTexts \cup Queries |-> Encode(text)])

TocPage == Tabulated([content \in ChunkTexts |-> is_toc_or_index_page(content)])

KeywordScore ==
    Tabulated([qc \in Queries \X ChunkTexts |-> calculate_keyword_score(qc[1], qc[2])])

IntentOf == Tabulated([query \in Queries |-> classify_query_intent(query)])

SafeName == Tabulated([filename \in RequestNames |-> sanitize_filename(filename)])

StoredNames == Range(SafeName)

UploadType == Tabulated([filename \in StoredNames |-> get_document_type(filename)])

BulkType == Tabulated([filename \in StoredNames |-> BulkDocumentType(filename)])

IsPdfName ==
    Tabulated([filename \in StoredNames |-> StrContains(StrLower(filename), ".pdf")])

\* embeddings.generate_embedding: the vector of the text (a cache hit returns the
\* vector stored for the same text)
generate_embedding(text) == EmbeddingOf[text]

(***************************************************************************)
(* State                                                                   *)
(***************************************************************************)
VARIABLES
    docs_dir,          \* DOCS_DIR: the PDF stored under each file name on disk
    tasks,             \* the background ingestion tasks queued and not yet run
    document_chunks,   \* the relational table document_chunks: the bag of its rows
    qdrant_points,     \* the Qdrant collection: the bag of its points
    response,          \* what the handler that ran last did and returned
    chunking,          \* the frame of the chunk_text call in progress: its arguments and locals
    embedding_cache,   \* Redis under driveiq:embeddings: the entry stored under each key
    encode_calls,      \* the number of times the embedding model was invoked
    search_cache,      \* Redis under driveiq:search: the entry stored under each key
    _model,            \* the global _model of services/embeddings.py: None or a model
    callers,           \* the threads inside get_model: where each is and what it holds
    highlighted_dir,   \* HIGHLIGHTED_DIR: the content of each file of highlighted pages
    page_requests      \* the highlighted-page requests in progress

\* the search cache, the embedding model and the rendered pages
beside == <<search_cache, _model, callers, highlighted_dir, page_requests>>

vars == <<docs_dir, tasks, document_chunks, qdrant_points, response,
          chunking, embedding_cache, encode_calls, beside>>

\* what the handlers of documents and searches leave alone: their embeddings are
\* the vectors the model computes (see CacheSpec for the cache in front of it)
aside == <<chunking, embedding_cache, encode_calls, beside>>

NoChunking == [active |-> FALSE]

NoResponse == [op |-> "none"]

\* None
None == "None"

\* nothing is cached, the model is not loaded, no page is rendered
BesideInit ==
    /\ search_cache = <<>>
    /\ _model = None
    /\ callers = <<>>
    /\ highlighted_dir = <<>>
    /\ page_requests = <<>>

(***************************************************************************)
(* Ingestion (services/document_ingestion.py)                              *)
(***************************************************************************)
\* `if chapter: current_chapter = chapter`
CurrentChapter(chapter, current_chapter) ==
    IF chapter # NoChapter THEN chapter ELSE current_chapter

RECURSIVE PageLoop(_, _, _, _, _, _, _)
\* the loop of process_pdf_document over the pages, from page page_num on; a
\* page that is skipped is not inspected for a chapter header
PageLoop(pdf, page_num, document_name, document_type, chunk_index, current_chapter, chunks_data) ==
    IF page_num > Len(pdf) THEN chunks_data
    ELSE LET text == pdf[page_num]
         IN IF ~ExtractablePage[text]
            THEN PageLoop(pdf, page_num + 1, document_name, document_type,
                          chunk_index, current_chapter, chunks_data)
            ELSE LET page_chunks == ChunksOfPage[text]
                     Data(k) ==
                         [ document_name |-> document_name,
                           document_type |-> document_type,
                           chunk_index   |-> chunk_index + k - 1,
                           content       |-> page_chunks[k],
                           page_number   |-> page_num,
                           embedding     |-> generate_embedding(page_chunks[k]),
                           chapter       |-> CurrentChapter(ChapterOfPage[text], current_chapter),
                           topics        |-> TopicsOf[page_chunks[k]],
                           tokens        |-> TokensOf[page_chunks[k]] ]
                 IN PageLoop(pdf, page_num + 1, document_name, document_type,
                             chunk_index + Len(page_chunks),
                             CurrentChapter(ChapterOfPage[text], current_chapter),
                             chunks_data \o [k \in 1..Len(page_chunks) |-> Data(k)])

process_pdf_document(pdf, document_name, document_type) ==
    PageLoop(pdf, 1, document_name, document_type, 0, NoChapter, <<>>)

(***************************************************************************)
(* A store is the bag of its entries.  The serial id of a row and the      *)
(* uuid4 of a point are never read by the handlers, and a fresh one equals *)
(* none in the store: an INSERT and an upsert under fresh ids add entries  *)
(* and never replace one.                                                  *)
(***************************************************************************)
RECURSIVE BagOfSeq(_)
\* the bag of the elements of a sequence
BagOfSeq(seq) ==
    IF seq = <<>> THEN EmptyBag ELSE SetToBag({Head(seq)}) (+) BagOfSeq(Tail(seq))

\* the entries of a bag that are in a set, with their counts
BagFilter(B, keep) == [x \in DOMAIN B \cap keep |-> B[x]]

\* the entries of a bag, one per copy
Entries(B) == UNION {{[item |-> x, copy |-> k] : k \in 1..B[x]} : x \in DOMAIN B}

RECURSIVE InsertLoop(_, _, _, _, _)
\* the loop of ingest_document over the chunks: an INSERT that raises rolls the
\* session's open transaction back and the loop goes on with the next chunk
InsertLoop(chunks, k, failing, state, pg_ok) ==
    IF k > Len(chunks) THEN state
    ELSE IF ~pg_ok \/ chunks[k].chunk_index \in failing
         THEN InsertLoop(chunks, k + 1, failing, [state EXCEPT !.pending = <<>>], pg_ok)
         ELSE InsertLoop(chunks, k + 1, failing,
                         [ pending  |-> Append(state.pending, chunks[k]),
                           inserted |-> state.inserted + 1,
                           qdrant   |-> Append(state.qdrant, chunks[k]) ], pg_ok)

\* the row of document_chunks made of a chunk (its serial id left out)
RowOf(chunk) ==
    [ document_name |-> chunk.document_name,
      document_type |-> chunk.document_type,
      chunk_index   |-> chunk.chunk_index,
      content       |-> chunk.content,
      page_number   |-> chunk.page_number,
      embedding     |-> chunk.embedding,
      chapter       |-> chunk.chapter,
      topics        |-> chunk.topics,
      tokens        |-> chunk.tokens ]

\* the Qdrant point made of a chunk (its uuid4 left out)
PointOf(chunk) ==
    [ vector  |-> chunk.embedding,
      payload |-> [ document_name |-> chunk.document_name,
                    document_type |-> chunk.document_type,
                    content       |-> chunk.content,
                    page_number   |-> chunk.page_number,
                    chunk_index   |-> chunk.chunk_index,
                    topics        |-> chunk.topics,
                    chapter       |-> chunk.chapter,
                    word_count    |-> chunk.tokens ] ]

\* qdrant_client.upsert_vectors under fresh ids: the points are added; nothing
\* is stored (and False returned) when Qdrant fails
upsert_vectors(points, new_points, qdrant_ok) ==
    IF qdrant_ok THEN points (+) new_points ELSE points

\* qdrant_client.delete_by_filter("document_name", value): nothing is deleted
\* (and False returned) when Qdrant fails
delete_by_filter(points, value, qdrant_ok) ==
    IF qdrant_ok
    THEN BagFilter(points, {p \in DOMAIN points : p.payload.document_name # value})
    ELSE points

\* the end of ingest_document: db.commit() of the pending rows, upsert_vectors of
\* the collected points, and the count returned
CommitAndUpsert(rows, points, done, qdrant_ok) ==
    [ rows     |-> rows (+) BagOfSeq([k \in 1..Len(done.pending) |-> RowOf(done.pending[k])]),
      points   |-> upsert_vectors(points,
                                  BagOfSeq([k \in 1..Len(done.qdrant) |->
                                              PointOf(done.qdrant[k])]),
                                  qdrant_ok),
      inserted |-> done.inserted ]

\* ingest_document: the stores after it and the count it returns.  failing is the
\* set of chunk indexes whose INSERT raises
ingest_document(rows, points, pdf, document_name, document_type, failing, pg_ok, qdrant_ok) ==
    CommitAndUpsert(rows, points,
                    InsertLoop(process_pdf_document(pdf, document_name, document_type), 1,
                               failing, [pending |-> <<>>, inserted |-> 0, qdrant |-> <<>>],
                               pg_ok),
                    qdrant_ok)

(***************************************************************************)
(* Hybrid search (services/enhanced_search.py)                             *)
(***************************************************************************)
\* settings.USE_QDRANT
USE_QDRANT == TRUE

\* the candidates a nearest-first scan may return next: those of the highest
\* score, the copies of one entry in the order of their numbers (they are
\* interchangeable)
Nearest(S) ==
    {x \in S : \A y \in S :
        /\ y.score <= x.score
        /\ [y EXCEPT !.copy = x.copy] = x => y.copy >= x.copy}

RECURSIVE NearestFirst(_, _)
\* ORDER BY distance LIMIT n: the lists a nearest-first scan may return, the
\* candidates of equal score in any order
NearestFirst(S, n) ==
    IF S = {} \/ n = 0 THEN {<<>>}
    ELSE UNION {{<<x>> \o t : t \in NearestFirst(S \ {x}, n - 1)} : x \in Nearest(S)}

Take(seq, n) == SubSeq(seq, 1, IF n < Len(seq) THEN n ELSE Len(seq))

\* SELECT ..., 1 - (embedding <=> :embedding) AS semantic_score FROM document_chunks
\* ORDER BY embedding <=> :embedding LIMIT :limit -- the result lists it may return
PgVectorQuery(rows, query_embedding, candidate_limit) ==
    LET scored == {[ copy          |-> e.copy,
                     content       |-> e.item.content,
                     document_name |-> e.item.document_name,
                     page_number   |-> e.item.page_number,
                     topics        |-> e.item.topics,
                     score         |-> CosineSimilarity(e.item.embedding, query_embedding) ] :
                   e \in Entries(rows)}
    IN NearestFirst(scored, candidate_limit)

\* qdrant_client.search_vectors: the points whose score reaches score_threshold,
\* nearest first, at most limit of them; [] when Qdrant fails.  score_threshold is
\* in units of 1/100000
search_vectors(points, query_vector, limit, score_threshold, qdrant_ok) ==
    LET scored == {[ copy |-> e.copy, payload |-> e.item.payload,
                     score |-> CosineSimilarity(e.item.vector, query_vector) ] :
                   e \in Entries(points)}
        passing == {x \in scored : x.score * 10 >= score_threshold}
    IN IF qdrant_ok THEN NearestFirst(passing, limit) ELSE {<<>>}

\* a combination with the two weights exchanged
CombinedScoreSwapped(semantic_score, keyword_score) == 3 * semantic_score + 7 * keyword_score

\* (semantic_score * 0.7) + (keyword_score * 0.3), in units of 1/100000
CombinedScore(semantic_score, keyword_score) == 7 * semantic_score + 3 * keyword_score

\* the SearchResult built from a candidate
MakeResult(query, content, document_name, page_number, topics, semantic_score) ==
    LET keyword_score == KeywordScore[<<query, content>>]
    IN [ content        |-> content,
         document_name  |-> document_name,
         page_number    |-> page_number,
         topics         |-> topics,
         semantic_score |-> semantic_score,
         keyword_score  |-> keyword_score,
         combined_score |-> CombinedScore(semantic_score, keyword_score) ]

\* an admission that forgets the table-of-contents test
AdmittedByScore(result, min_score) == result.combined_score >= min_score

\* the test that admits a scored candidate: not a TOC page, score at the threshold
Admitted(result, min_score) ==
    /\ ~TocPage[result.content]
    /\ result.combined_score >= min_score

\* the first loop of hybrid_search: the admitted results of the pgvector rows
ScorePgResults(query, pg_results, min_score) ==
    LET Result(k) == MakeResult(query, pg_results[k].content, pg_results[k].document_name,
                                pg_results[k].page_number, pg_results[k].topics,
                                pg_results[k].score)
        Keep(r) == Admitted(r, min_score)
    IN SelectSeq([k \in 1..Len(pg_results) |-> Result(k)], Keep)

\* the second loop of hybrid_search: the admitted results of the Qdrant points
ScoreQdrantResults(query, qdrant_results, min_score) ==
    LET Result(k) == MakeResult(query, qdrant_results[k].payload.content,
                                qdrant_results[k].payload.document_name,
                                qdrant_results[k].payload.page_number,
                                qdrant_results[k].payload.topics,
                                qdrant_results[k].score)
        Keep(r) == Admitted(r, min_score)
    IN SelectSeq([k \in 1..Len(qdrant_results) |-> Result(k)], Keep)

ResultKey(r) == <<r.document_name, r.page_number>>

\* a deduplication that keeps the result seen first for a key
ReplacesNever(r, kept) == FALSE

\* r.combined_score > seen[key].combined_score
Replaces(r, kept) == r.combined_score > kept.combined_score

RECURSIVE DedupLoop(_, _, _)
\* the loop that fills the dict seen, whose values keep the order their keys were
\* first inserted in
DedupLoop(scored_results, k, seen) ==
    IF k > Len(scored_results) THEN seen
    ELSE LET r == scored_results[k]
             at == {i \in 1..Len(seen) : ResultKey(seen[i]) = ResultKey(r)}
         IN IF at = {} THEN DedupLoop(scored_results, k + 1, Append(seen, r))
            ELSE LET i == CHOOSE j \in at : TRUE
                 IN IF Replaces(r, seen[i])
                    THEN DedupLoop(scored_results, k + 1, [seen EXCEPT ![i] = r])
                    ELSE DedupLoop(scored_results, k + 1, seen)

Deduplicate(scored_results) == DedupLoop(scored_results, 1, <<>>)

\* a sort that leaves the list as it is
Unsorted(list) == list

RECURSIVE SortLoop(_, _, _)
\* list.sort(key=combined_score, reverse=True): stable, by decreasing score
SortLoop(list, k, sorted) ==
    IF k > Len(list) THEN sorted
    ELSE LET r == list[k]
             n == Cardinality({i \in 1..Len(sorted) :
                                 sorted[i].combined_score >= r.combined_score})
         IN SortLoop(list, k + 1,
                     SubSeq(sorted, 1, n) \o <<r>> \o SubSeq(sorted, n + 1, Len(sorted)))

SortByScore(list) == SortLoop(list, 1, <<>>)

\* the end of hybrid_search: the admitted results of the two backends are
\* deduplicated, sorted and cut to limit
MergeResults(pg_scored, qdrant_scored, limit) ==
    [ pg_scored      |-> pg_scored,
      qdrant_scored  |-> qdrant_scored,
      scored_results |-> pg_scored \o qdrant_scored,
      results        |-> Take(SortByScore(Deduplicate(pg_scored \o qdrant_scored)), limit) ]

\* what one hybrid_search call did, given the lists the two backends returned
hybrid_search(query, limit, min_score, pg_results, qdrant_results) ==
    MergeResults(ScorePgResults(query, pg_results, min_score),
                 ScoreQdrantResults(query, qdrant_results, min_score), limit)

\* the record of a hybrid_search call: its arguments, the reachability of the
\* backends while it ran, whether it returned or raised, and its lists
SearchRecord(query, limit, min_score, pg_ok, qdrant_ok, status, run) ==
    [ ran |-> TRUE, query |-> query, limit |-> limit, min_score |-> min_score,
      pg_ok |-> pg_ok, qdrant_ok |-> qdrant_ok, status |-> status,
      pg_scored |-> run.pg_scored, qdrant_scored |-> run.qdrant_scored,
      scored_results |-> run.scored_results, results |-> run.results ]

NoRun == [pg_scored |-> <<>>, qdrant_scored |-> <<>>, scored_results |-> <<>>, results |-> <<>>]

NoSearch == [ran |-> FALSE]

\* the hybrid_search calls that are possible in the current state: the pgvector
\* query raises when PostgreSQL is unreachable, a Qdrant failure is caught
HybridSearchCalls(query, limit, min_score, pg_ok, qdrant_ok) ==
    LET query_embedding == generate_embedding(query)
        candidate_limit == limit * 3
    IN IF ~pg_ok
       THEN {SearchRecord(query, limit, min_score, pg_ok, qdrant_ok, "raised", NoRun)}
       ELSE {SearchRecord(query, limit, min_score, pg_ok, qdrant_ok, "ok",
                          hybrid_search(query, limit, min_score, pg_results, qdrant_results)) :
               pg_results \in PgVectorQuery(document_chunks, query_embedding, candidate_limit),
               qdrant_results \in
                   IF USE_QDRANT
                   THEN search_vectors(qdrant_points, query_embedding, candidate_limit,
                                       min_score, qdrant_ok)
                   ELSE {<<>>}}

(***************************************************************************)
(* Handlers                                                                *)
(***************************************************************************)
\* the sets of chunk indexes whose INSERT raises during one ingestion
FailChoices == {{}, {0}, {1}}

FileNames == DOMAIN docs_dir

RemoveFile(dir, name) == [f \in (DOMAIN dir) \ {name} |-> dir[f]]

WriteFile(dir, name, pdf) == [f \in (DOMAIN dir) \cup {name} |-> IF f = name THEN pdf ELSE dir[f]]

Fits(rows, points) == BagCardinality(rows) <= MaxChunks /\ BagCardinality(points) <= MaxChunks

\* POST /uploads: the file is written under its sanitized name and a background
\* ingestion task is queued
upload_document ==
    \E u \in Uploads :
        LET safe_filename == SafeName[u[1]]
        IN /\ safe_filename # ""
           /\ docs_dir' = WriteFile(docs_dir, safe_filename, u[2])
           /\ tasks' = tasks \cup {[ filename      |-> safe_filename,
                                     document_type |-> UploadType[safe_filename] ]}
           /\ response' = [op |-> "upload_document", filename |-> safe_filename]
           /\ UNCHANGED <<document_chunks, qdrant_points>>
           /\ UNCHANGED aside

\* a queued task runs: extract_page_images raises when the file is gone and the
\* task ends; otherwise the document is ingested and a PDF that is not reference
\* material is deleted from disk
background_ingest_document ==
    \E t \in tasks, failing \in FailChoices, pg_ok \in BOOLEAN, qdrant_ok \in BOOLEAN :
        /\ tasks' = tasks \ {t}
        /\ UNCHANGED aside
        /\ IF t.filename \notin FileNames
           THEN /\ response' = [ op |-> "background_ingest_document", status |-> "failed",
                                 filename |-> t.filename ]
                /\ UNCHANGED <<docs_dir, document_chunks, qdrant_points>>
           ELSE \E done \in {ingest_document(document_chunks, qdrant_points,
                                               docs_dir[t.filename], t.filename,
                                               t.document_type, failing, pg_ok, qdrant_ok)} :
                   /\ Fits(done.rows, done.points)
                   /\ document_chunks' = done.rows
                   /\ qdrant_points' = done.points
                   /\ docs_dir' = IF t.document_type \notin KEEP_ON_DISK_TYPES
                                  THEN RemoveFile(docs_dir, t.filename)
                                  ELSE docs_dir
                   /\ response' = [ op |-> "background_ingest_document", status |-> "ok",
                                    filename |-> t.filename, count |-> done.inserted ]

\* results[pdf_file] = count
Counted(results, filename, done) ==
    [ rows    |-> done.rows,
      points  |-> done.points,
      results |-> (filename :> done.inserted) @@ results ]

RECURSIVE IngestFiles(_, _, _, _, _, _)
\* the loop of ingest_all_documents over the PDF files of the directory
IngestFiles(files, k, stores, failing, pg_ok, qdrant_ok) ==
    IF k > Len(files) THEN stores
    ELSE IngestFiles(files, k + 1,
                     Counted(stores.results, files[k],
                             ingest_document(stores.rows, stores.points, docs_dir[files[k]],
                                             files[k], BulkType[files[k]],
                                             failing, pg_ok, qdrant_ok)),
                     failing, pg_ok, qdrant_ok)

\* the orders os.listdir may list a set of files in
ListingOrders(names) ==
    {o \in [1..Cardinality(names) -> names] : \A i, j \in DOMAIN o : i # j => o[i] # o[j]}

\* POST /uploads/ingest: TRUNCATE document_chunks (raises when PostgreSQL is
\* unreachable), delete the Qdrant collection (a failure is logged and ignored),
\* then ingest every PDF of the directory
ingest_all_documents ==
    \E failing \in FailChoices, pg_ok \in BOOLEAN, qdrant_ok \in BOOLEAN :
        IF ~pg_ok
        THEN /\ response' = [op |-> "ingest_all_documents", status |-> "raised"]
             /\ UNCHANGED <<docs_dir, tasks, document_chunks, qdrant_points>>
             /\ UNCHANGED aside
        ELSE \E files \in ListingOrders({f \in FileNames : IsPdfName[f]}),
                kept_points \in {IF qdrant_ok THEN EmptyBag ELSE qdrant_points} :
               \E done \in {IngestFiles(files, 1,
                                        [ rows |-> EmptyBag, points |-> kept_points,
                                          results |-> <<>> ],
                                        failing, pg_ok, qdrant_ok)} :
                  /\ Fits(done.rows, done.points)
                  /\ document_chunks' = done.rows
                  /\ qdrant_points' = done.points
                  /\ response' = [ op |-> "ingest_all_documents", status |-> "ok",
                                   results |-> done.results,
                                   kept |-> BagCardinality(kept_points) ]
                  /\ UNCHANGED <<docs_dir, tasks>>
                  /\ UNCHANGED aside

\* DELETE /uploads/{filename}: the rows of the document are deleted (the COUNT
\* raises when PostgreSQL is unreachable), then its Qdrant points (the result of
\* delete_by_filter is not looked at), then the PDF
delete_document ==
    \E filename \in DeleteNames, pg_ok \in BOOLEAN, qdrant_ok \in BOOLEAN :
        LET safe_filename == SafeName[filename]
            named == {r \in DOMAIN document_chunks : r.document_name = safe_filename}
            deleted_chunks == BagCardinality(BagFilter(document_chunks, named))
        IN /\ safe_filename # ""
           /\ IF ~pg_ok
              THEN /\ response' = [ op |-> "delete_document", status |-> "raised",
                                    filename |-> filename, safe_filename |-> safe_filename ]
                   /\ UNCHANGED <<docs_dir, document_chunks, qdrant_points>>
              ELSE /\ document_chunks' = BagFilter(document_chunks,
                                                  DOMAIN document_chunks \ named)
                   /\ qdrant_points' = delete_by_filter(qdrant_points, safe_filename, qdrant_ok)
                   /\ docs_dir' = RemoveFile(docs_dir, safe_filename)
                   /\ response' = [ op |-> "delete_document", status |-> "ok",
                                    filename |-> filename, safe_filename |-> safe_filename,
                                    chunks_deleted |-> deleted_chunks,
                                    pdf_deleted |-> safe_filename \in FileNames ]
           /\ UNCHANGED tasks
           /\ UNCHANGED aside

\* a direct call of hybrid_search
HybridSearch ==
    \E query \in SearchQueries, limit \in Limits, min_score \in MinScores,
       pg_ok \in BOOLEAN, qdrant_ok \in BOOLEAN :
        \E call \in HybridSearchCalls(query, limit, min_score, pg_ok, qdrant_ok) :
            /\ response' = [ op |-> "hybrid_search", status |-> call.status,
                             query |-> query, results |-> call.results, search |-> call ]
            /\ UNCHANGED <<docs_dir, tasks, document_chunks, qdrant_points>>
            /\ UNCHANGED aside

\* a test that skips retrieval for conversational queries only
NeedsRetrievalUnlessChat(intent) == intent # CONVERSATIONAL

\* if intent == QueryIntent.VEHICLE_TECHNICAL
NeedsRetrieval(intent) == intent = VEHICLE_TECHNICAL

\* smart_search, as the chat handler calls it: retrieval runs only for a
\* vehicle_technical query over a non-empty chunk table
smart_search ==
    \E query \in ChatQueries, limit \in Limits, pg_ok \in BOOLEAN, qdrant_ok \in BOOLEAN :
        LET intent == IntentOf[query]
            Reply(status, results, counted, search) ==
                [ op |-> "smart_search", status |-> status, query |-> query,
                  intent |-> intent, results |-> results, counted |-> counted,
                  search |-> search ]
        IN /\ UNCHANGED <<docs_dir, tasks, document_chunks, qdrant_points>>
           /\ UNCHANGED aside
           /\ IF NeedsRetrieval(intent)
              THEN IF ~pg_ok
                   THEN response' = Reply("raised", <<>>, TRUE, NoSearch)
                   ELSE IF BagCardinality(document_chunks) > 0
                        THEN \E call \in HybridSearchCalls(query, limit, RELEVANCE_THRESHOLD,
                                                           pg_ok, qdrant_ok) :
                               response' = Reply(call.status, call.results, TRUE, call)
                        ELSE response' = Reply("ok", <<>>, TRUE, NoSearch)
              ELSE response' = Reply("ok", <<>>, FALSE, NoSearch)

Init ==
    /\ docs_dir = <<>>
    /\ tasks = {}
    /\ document_chunks = EmptyBag
    /\ qdrant_points = EmptyBag
    /\ response = NoResponse
    /\ chunking = NoChunking
    /\ embedding_cache = <<>>
    /\ encode_calls = 0
    /\ BesideInit

\* documents are uploaded, ingested, re-ingested and deleted
Next ==
    \/ upload_document
    \/ background_ingest_document
    \/ ingest_all_documents
    \/ delete_document

Spec == Init /\ [][Next]_vars

\* documents are uploaded and ingested one by one, none is deleted
UploadNext ==
    \/ upload_document
    \/ background_ingest_document

UploadSpec == Init /\ [][UploadNext]_vars

(***************************************************************************)
(* Searches over the stores that ingestions leave                          *)
(***************************************************************************)
\* the directory and the stores once the task of an upload has run
AfterTask(dir, safe_filename, document_type, pdf, done) ==
    [ dir    |-> IF document_type \in KEEP_ON_DISK_TYPES
                 THEN WriteFile(dir, safe_filename, pdf)
                 ELSE RemoveFile(dir, safe_filename),
      rows   |-> done.rows,
      points |-> done.points ]

\* upload_document followed by its background_ingest_document
UploadAndIngest(seed, u, failing, qdrant_ok) ==
    AfterTask(seed.dir, SafeName[u[1]], UploadType[SafeName[u[1]]], u[2],
              ingest_document(seed.rows, seed.points, u[2], SafeName[u[1]],
                              UploadType[SafeName[u[1]]], failing, TRUE, qdrant_ok))

\* delete_document of a file, PostgreSQL reachable
Deleted(seed, safe_filename, qdrant_ok) ==
    [ dir    |-> RemoveFile(seed.dir, safe_filename),
      rows   |-> BagFilter(seed.rows,
                           {r \in DOMAIN seed.rows : r.document_name # safe_filename}),
      points |-> delete_by_filter(seed.points, safe_filename, qdrant_ok) ]

RECURSIVE StoresAfter(_)
\* the directory and the stores after at most n requests: uploads that were
\* ingested, and deletions
StoresAfter(n) ==
    IF n = 0 THEN {[dir |-> <<>>, rows |-> EmptyBag, points |-> EmptyBag]}
    ELSE StoresAfter(n - 1) \cup
         { UploadAndIngest(seed, u, failing, qdrant_ok) :
             seed \in StoresAfter(n - 1), u \in SeedUploads,
             failing \in FailChoices, qdrant_ok \in BOOLEAN } \cup
         { Deleted(seed, SafeName[filename], qdrant_ok) :
             seed \in StoresAfter(n - 1), filename \in DeleteNames, qdrant_ok \in BOOLEAN }

SearchInit ==
    \E seed \in StoresAfter(MaxRequests) :
        /\ docs_dir = seed.dir
        /\ tasks = {}
        /\ document_chunks = seed.rows
        /\ qdrant_points = seed.points
        /\ response = NoResponse
        /\ chunking = NoChunking
        /\ embedding_cache = <<>>
        /\ encode_calls = 0
        /\ BesideInit

\* a search leaves the directory and the stores as they are: the states a
\* sequence of searches reaches are the states its last search reaches alone,
\* so one search is taken from each initial state
SearchNext ==
    \/ response = NoResponse /\ HybridSearch
    \/ response = NoResponse /\ smart_search

SearchSpec == SearchInit /\ [][SearchNext]_vars

(***************************************************************************)
(* Classification of queries                                               *)
(***************************************************************************)
\* classify_query_intent is applied to a query made of an opening, a general
\* question and a remainder
ClassifyQuery ==
    \E opening \in Openings, general \in GeneralQuestions, rest \in Remainders :
        /\ response' = [ op |-> "classify_query_intent",
                         opening |-> opening, general |-> general, rest |-> rest,
                         query |-> opening \o general \o rest,
                         intent |-> classify_query_intent(opening \o general \o rest) ]
        /\ UNCHANGED <<docs_dir, tasks, document_chunks, qdrant_points>>
        /\ UNCHANGED aside

IntentNext == ClassifyQuery

IntentSpec == Init /\ [][IntentNext]_vars

(***************************************************************************)
(* chunk_text, one iteration of its loop at a time                         *)
(***************************************************************************)
\* the texts chunk_text is called with
ChunkInputs ==
    { "", "  ", " ab ", "abcdefgh\n", "abcde. fghij", "ab cd. ef gh! ij kl? mn",
      "abcdefghijklmnopqrstuv", "abcdef.      x. yz", "a. b. c. d. e. f. g. h.",
      "abcde. f          gh. i", "abcdefg. i! klmnop" }

\* the chunk sizes and the overlaps it is called with, 0 <= overlap < chunk_size
ChunkSizes == {6, 8, 12}

Overlaps(chunk_size) == {overlap \in {0, 2, 3, 6, 7} : overlap < chunk_size}

\* the number of iterations of the loop that are followed
MaxIterations == 12

NewFrame(text, chunk_size, overlap) ==
    [ active |-> TRUE, text |-> text, chunk_size |-> chunk_size,
      overlap |-> overlap, start |-> 0, chunks |-> <<>>, windows |-> <<>> ]

ChunkRecord(frame, status, chunks) ==
    [ op |-> "chunk_text", status |-> status, text |-> frame.text,
      chunk_size |-> frame.chunk_size, overlap |-> frame.overlap,
      chunks |-> chunks, windows |-> frame.windows ]

\* chunk_text is called: a text no longer than chunk_size is returned as it is,
\* a longer one enters the loop with start = 0
chunk_text_call ==
    \E text \in ChunkInputs, chunk_size \in ChunkSizes :
        \E overlap \in Overlaps(chunk_size) :
                /\ ~chunking.active
                /\ IF Len(text) <= chunk_size
                   THEN /\ response' = ChunkRecord(NewFrame(text, chunk_size, overlap), "returned", <<text>>)
                        /\ UNCHANGED chunking
                   ELSE /\ response' = NoResponse
                        /\ chunking' = NewFrame(text, chunk_size, overlap)
                /\ UNCHANGED <<docs_dir, tasks, document_chunks, qdrant_points,
                               embedding_cache, encode_calls>>
                /\ UNCHANGED beside

\* one iteration of the while loop: the window from start is cut, its stripped
\* text is appended unless it is empty, and start moves to end - overlap
chunk_text_loop ==
    /\ chunking.active
    /\ chunking.start < Len(chunking.text)
    /\ Len(chunking.windows) < MaxIterations
    /\ \E end \in {WindowEnd(chunking.text, chunking.start, chunking.chunk_size)} :
          chunking' =
              [ active     |-> TRUE,
                text       |-> chunking.text,
                chunk_size |-> chunking.chunk_size,
                overlap    |-> chunking.overlap,
                start      |-> NextStart(end, chunking.overlap),
                chunks     |-> AppendChunk(chunking.chunks,
                                           StrStrip(Slice(chunking.text, chunking.start, end))),
                windows    |-> Append(chunking.windows,
                                      [start |-> chunking.start, end |-> end]) ]
    /\ UNCHANGED <<docs_dir, tasks, document_chunks, qdrant_points, response,
                   embedding_cache, encode_calls>>
    /\ UNCHANGED beside

\* the loop ends once start has reached the end of the text
chunk_text_return ==
    /\ chunking.active
    /\ chunking.start >= Len(chunking.text)
    /\ response' = ChunkRecord(chunking, "returned", chunking.chunks)
    /\ chunking' = NoChunking
    /\ UNCHANGED <<docs_dir, tasks, document_chunks, qdrant_points,
                   embedding_cache, encode_calls>>
    /\ UNCHANGED beside

ChunkNext ==
    \/ chunk_text_call
    \/ chunk_text_loop
    \/ chunk_text_return

ChunkSpec == Init /\ [][ChunkNext]_vars

(***************************************************************************)
(* Ingestion of one document, with the failures of its steps               *)
(***************************************************************************)
\* the sets of chunk indexes for which generate_embedding raises
EmbedFailChoices == {{}, {0}, {1}}

\* process_pdf_document calls generate_embedding outside any try: the exception
\* of one chunk leaves the function, and ingest_document with it
EmbeddingRaises(chunks, embed_failing) ==
    \E k \in 1..Len(chunks) : chunks[k].chunk_index \in embed_failing

\* what a call of ingest_document was given and what it did
IngestRecord(document_name, attempted, failing, embed_failing, pg_ok, status, count, committed) ==
    [ op |-> "ingest_document", status |-> status, document_name |-> document_name,
      attempted |-> attempted, failing |-> failing, embed_failing |-> embed_failing,
      pg_ok |-> pg_ok, count |-> count, committed |-> committed ]

\* a call of ingest_document on a PDF: attempted is the number of chunks of the
\* PDF, committed the number of rows the call added to document_chunks
IngestDocument ==
    \E u \in Uploads, failing \in FailChoices, embed_failing \in EmbedFailChoices,
       pg_ok \in BOOLEAN, qdrant_ok \in BOOLEAN :
        \E chunks \in {process_pdf_document(u[2], SafeName[u[1]], UploadType[SafeName[u[1]]])} :
            /\ UNCHANGED <<docs_dir, tasks>>
            /\ UNCHANGED aside
            /\ IF EmbeddingRaises(chunks, embed_failing)
               THEN /\ response' = IngestRecord(SafeName[u[1]], Len(chunks), failing,
                                                embed_failing, pg_ok, "raised", 0, 0)
                    /\ UNCHANGED <<document_chunks, qdrant_points>>
               ELSE \E done \in {ingest_document(document_chunks, qdrant_points, u[2],
                                                   SafeName[u[1]], UploadType[SafeName[u[1]]],
                                                   failing, pg_ok, qdrant_ok)} :
                       /\ Fits(done.rows, done.points)
                       /\ document_chunks' = done.rows
                       /\ qdrant_points' = done.points
                       /\ response' = IngestRecord(SafeName[u[1]], Len(chunks), failing,
                                                   embed_failing, pg_ok, "ok", done.inserted,
                                                   BagCardinality(done.rows)
                                                       - BagCardinality(document_chunks))

IngestNext == IngestDocument

IngestSpec == Init /\ [][IngestNext]_vars

(***************************************************************************)
(* process_pdf_document on the PDFs with chapters                          *)
(***************************************************************************)
\* process_pdf_document is called on a PDF; the response holds the PDF and the
\* chunks_data returned
ProcessPdf ==
    \E pdf \in ChapterPdfs :
        /\ response = NoResponse
        /\ response' = [ op          |-> "process_pdf_document",
                         pdf         |-> pdf,
                         chunks_data |-> process_pdf_document(pdf, "manual.pdf", "manual") ]
        /\ UNCHANGED <<docs_dir, tasks, document_chunks, qdrant_points>>
        /\ UNCHANGED aside

ChapterNext == ProcessPdf

ChapterSpec == Init /\ [][ChapterNext]_vars

(***************************************************************************)
(* detect_topics on chunk texts                                            *)
(***************************************************************************)
\* the chunk texts tagged: an opening, a middle and an ending, with keywords
\* repeated, in capitals, inside longer words, one inside another ("filter"
\* in "air filter") and shared by two sets ("brake", "steering")
TopicOpenings == {"", "Oil ", "BRAKE ", "Engine "}

TopicMiddles == {"", "oil", "Air Filter", "restart", "torque", "brake"}

TopicEndings == {"", " and the oil", " warning", " steering", " Cruise mode"}

TopicTexts == {a \o b \o c : a \in TopicOpenings, b \in TopicMiddles, c \in TopicEndings}

\* detect_topics is called on a chunk text
DetectTopics ==
    \E text \in TopicTexts :
        /\ response = NoResponse
        /\ response' = [ op |-> "detect_topics", text |-> text,
                         topics |-> detect_topics(text), retagged |-> <<>> ]
        /\ UNCHANGED <<docs_dir, tasks, document_chunks, qdrant_points>>
        /\ UNCHANGED aside

\* the same text is tagged again
RetagTopics ==
    /\ response.op = "detect_topics"
    /\ response.retagged = <<>>
    /\ response' = [ op |-> "detect_topics", text |-> response.text,
                     topics |-> response.topics,
                     retagged |-> <<detect_topics(response.text)>> ]
    /\ UNCHANGED <<docs_dir, tasks, document_chunks, qdrant_points>>
    /\ UNCHANGED aside

TopicNext ==
    \/ DetectTopics
    \/ RetagTopics

TopicSpec == Init /\ [][TopicNext]_vars

(***************************************************************************)
(* The embedding cache (core/redis_client.py) in front of the model        *)
(* (services/embeddings.py).  embedding_cache is the content of Redis      *)
(* under the prefix driveiq:embeddings: a function from keys to entries,   *)
(* an entry being the JSON text stored and the TTL it was stored with.     *)
(* Redis removes an entry when its TTL has run out.  encode_calls counts   *)
(* the invocations of model.encode.                                        *)
(***************************************************************************)
\* the TTL of set_embedding, in seconds
EMBEDDING_TTL == 86400

\* the number of keys of the stand-in for the key space of _hash_text
KEY_SPACE == 16

\* the characters the stand-in digest tells apart
ALPHABET == LOWER \o UPPER \o DIGITS

CharCode(c) ==
    IF c \in CharsOf(ALPHABET) THEN CHOOSE i \in 1..Len(ALPHABET) : Char(ALPHABET, i) = c
    ELSE 0

RECURSIVE Digest(_)
\* a digest of a text: a polynomial in the codes of its characters
Digest(text) ==
    IF text = "" THEN 0
    ELSE (31 * Digest(SubSeq(text, 1, Len(text) - 1)) + CharCode(Char(text, Len(text))))
             % KEY_SPACE

\* the texts embedded: two of them have the same key
CacheTexts == {"oil filter", "tire rotation", "how are you"}

HashOf == Tabulated([text \in CacheTexts |-> Digest(text)])

\* the vectors the model computes for the texts
EncodeOf == Tabulated([text \in CacheTexts |-> Encode(text)])

\* EmbeddingCache._hash_text: the first 16 hexadecimal digits of the SHA-256
\* digest of the text, one of 2^64 keys for the unboundedly many texts, so
\* that different texts with the same key exist.  The stand-in is a digest
\* with KEY_SPACE keys: equal for equal texts, and not one-to-one.
_hash_text(text) == HashOf[text]

RECURSIVE IntToStr(_)
\* str(n) of a natural number
IntToStr(n) ==
    IF n < 10 THEN Char(DIGITS, n + 1)
    ELSE IntToStr(n \div 10) \o Char(DIGITS, (n % 10) + 1)

RECURSIVE StrToInt(_)
\* int(s) of a string of digits
StrToInt(s) ==
    LET digit == (CHOOSE i \in 1..Len(DIGITS) : Char(DIGITS, i) = Char(s, Len(s))) - 1
    IN IF Len(s) = 1 THEN digit ELSE 10 * StrToInt(SubSeq(s, 1, Len(s) - 1)) + digit

RECURSIVE JoinItems(_)
\* ", ".join of the items of a list
JoinItems(items) ==
    IF items = <<>> THEN ""
    ELSE IF Len(items) = 1 THEN items[1]
    ELSE items[1] \o ", " \o JoinItems(Tail(items))

RECURSIVE SplitItems(_)
\* the items of a text between its separators ", "
SplitItems(s) ==
    LET seps == {i \in 1..Len(s) : OccursAt(s, ", ", i)}
    IN IF s = "" THEN <<>>
       ELSE IF seps = {} THEN <<s>>
       ELSE <<SubSeq(s, 1, MinOf(seps) - 1)>> \o SplitItems(SubSeq(s, MinOf(seps) + 2, Len(s)))

\* json.dumps of a vector: the list of its numbers in brackets
json_dumps(value) == "[" \o JoinItems([i \in 1..Len(value) |-> IntToStr(value[i])]) \o "]"

\* json.loads of the text of a vector
json_loads(data) ==
    LET items == SplitItems(SubSeq(data, 2, Len(data) - 1))
    IN [i \in 1..Len(items) |-> StrToInt(items[i])]

\* RedisCache.get: the value stored under the key, <<value>>, or None, <<>>,
\* when the key is absent, its data empty or Redis raises
RedisGet(cache, key, get_ok) ==
    IF get_ok /\ key \in DOMAIN cache /\ cache[key].data # ""
    THEN <<json_loads(cache[key].data)>>
    ELSE <<>>

\* RedisCache.set: setex of the JSON text under the key; nothing is stored when
\* Redis raises
RedisSet(cache, key, value, ttl, set_ok) ==
    IF set_ok
    THEN [k \in DOMAIN cache \cup {key} |->
             IF k = key THEN [data |-> json_dumps(value), ttl |-> ttl] ELSE cache[k]]
    ELSE cache

\* EmbeddingCache.get_embedding with every read a miss
get_embedding_missing(cache, text, get_ok) == <<>>

\* EmbeddingCache.get_embedding
get_embedding(cache, text, get_ok) == RedisGet(cache, _hash_text(text), get_ok)

\* EmbeddingCache.set_embedding
set_embedding(cache, text, embedding, set_ok) ==
    RedisSet(cache, _hash_text(text), embedding, EMBEDDING_TTL, set_ok)

\* embeddings.generate_embedding in front of the cache: the vector returned,
\* the cache after the call and the number of invocations of the model
generate_embedding_cached(cache, text, use_cache, get_ok, set_ok) ==
    LET cached == IF use_cache THEN get_embedding(cache, text, get_ok) ELSE <<>>
        result == EncodeOf[text]
    IN IF cached # <<>>
       THEN [vector |-> cached[1], cache |-> cache, encoded |-> 0]
       ELSE [vector  |-> result,
             cache   |-> IF use_cache THEN set_embedding(cache, text, result, set_ok)
                         ELSE cache,
             encoded |-> 1]

RECURSIVE StoreLoop(_, _, _, _, _)
\* the loop of generate_embeddings over texts_to_compute, from index i on: the
\* vector of every text that was not found is stored
StoreLoop(cache, texts, results, i, set_ok) ==
    IF i > Len(texts) THEN cache
    ELSE IF results[i] # <<>> THEN StoreLoop(cache, texts, results, i + 1, set_ok)
    ELSE StoreLoop(set_embedding(cache, texts[i], EncodeOf[texts[i]], set_ok),
                   texts, results, i + 1, set_ok)

\* embeddings.generate_embeddings: the texts not found in the cache are encoded
\* in one batch
generate_embeddings_cached(cache, texts, use_cache, get_ok, set_ok) ==
    LET results == [i \in 1..Len(texts) |->
                       IF use_cache THEN get_embedding(cache, texts[i], get_ok) ELSE <<>>]
        texts_to_compute == {i \in 1..Len(texts) : results[i] = <<>>}
    IN [vectors |-> [i \in 1..Len(texts) |->
                        IF results[i] # <<>> THEN results[i][1] ELSE EncodeOf[texts[i]]],
        cache   |-> IF use_cache THEN StoreLoop(cache, texts, results, 1, set_ok) ELSE cache,
        encoded |-> IF texts_to_compute = {} THEN 0 ELSE 1]

\* the length of a batch
MaxBatch == 2

Batches == UNION {[1..n -> CacheTexts] : n \in 1..MaxBatch}

\* the invocations of the model that are followed
MaxEncodeCalls == 3

\* generate_embedding(text, use_cache) is called; Redis answers the read and
\* the write, or raises
GenerateEmbedding ==
    \E text \in CacheTexts, use_cache \in BOOLEAN, get_ok \in BOOLEAN, set_ok \in BOOLEAN :
        \E done \in {generate_embedding_cached(embedding_cache, text, use_cache, get_ok, set_ok)} :
           /\ encode_calls + done.encoded <= MaxEncodeCalls
           /\ embedding_cache' = done.cache
           /\ encode_calls' = encode_calls + done.encoded
           /\ response' = [ op |-> "generate_embedding", text |-> text,
                            use_cache |-> use_cache, get_ok |-> get_ok, set_ok |-> set_ok,
                            vector |-> done.vector, encoded |-> done.encoded ]
           /\ UNCHANGED <<docs_dir, tasks, document_chunks, qdrant_points, chunking>>
           /\ UNCHANGED beside

\* generate_embeddings(texts, use_cache) is called
GenerateEmbeddings ==
    \E texts \in Batches, use_cache \in BOOLEAN, get_ok \in BOOLEAN, set_ok \in BOOLEAN :
        \E done \in {generate_embeddings_cached(embedding_cache, texts, use_cache, get_ok, set_ok)} :
           /\ encode_calls + done.encoded <= MaxEncodeCalls
           /\ embedding_cache' = done.cache
           /\ encode_calls' = encode_calls + done.encoded
           /\ response' = [ op |-> "generate_embeddings", texts |-> texts,
                            use_cache |-> use_cache, get_ok |-> get_ok, set_ok |-> set_ok,
                            vectors |-> done.vectors, encoded |-> done.encoded ]
           /\ UNCHANGED <<docs_dir, tasks, document_chunks, qdrant_points, chunking>>
           /\ UNCHANGED beside

\* the TTL of an entry runs out and Redis removes it
ExpireEntry ==
    \E key \in DOMAIN embedding_cache :
        /\ embedding_cache' = [k \in DOMAIN embedding_cache \ {key} |-> embedding_cache[k]]
        /\ response' = [op |-> "expire", key |-> key]
        /\ UNCHANGED <<docs_dir, tasks, document_chunks, qdrant_points, chunking, encode_calls>>
        /\ UNCHANGED beside

\* the whole cache is lost (Redis restarted or flushed)
LoseCache ==
    /\ embedding_cache # <<>>
    /\ embedding_cache' = <<>>
    /\ response' = [op |-> "flush"]
    /\ UNCHANGED <<docs_dir, tasks, document_chunks, qdrant_points, chunking, encode_calls>>
    /\ UNCHANGED beside

CacheNext ==
    \/ GenerateEmbedding
    \/ GenerateEmbeddings
    \/ ExpireEntry
    \/ LoseCache

CacheSpec == Init /\ [][CacheNext]_vars

(***************************************************************************)
(* The search cache (core/redis_client.py) in front of                     *)
(* VectorSearchService.search (services/vector_search.py).  search_cache   *)
(* is the content of Redis under the prefix driveiq:search: a function     *)
(* from keys to entries.  The data of an entry is JSON text: it is kept    *)
(* as the value json.loads makes of it, a list of objects, an object being *)
(* the list of its items, or as unreadable when it is not JSON.            *)
(***************************************************************************)
\* the TTL of set_results, in seconds
SEARCH_TTL == 300

\* the queries of the searches through the service; topics_filter and
\* document_type are None in all of them
ServiceQueries == {"oil change"}

ServiceLimits == {3}

\* min_score, in units of 1/100000
ServiceMinScores == {0, 20000}

\* a number below 100000 in five digits
Pad5(n) == SubSeq("00000", 1, 5 - Len(IntToStr(n))) \o IntToStr(n)

RECURSIVE TrimZeros(_)
TrimZeros(s) ==
    IF s # "" /\ Char(s, Len(s)) = "0" THEN TrimZeros(SubSeq(s, 1, Len(s) - 1)) ELSE s

\* json.dumps of the float min_score / 100000, which is below 1
FloatStr(min_score) ==
    "0." \o (IF TrimZeros(Pad5(min_score)) = "" THEN "0" ELSE TrimZeros(Pad5(min_score)))

\* json.dumps(cache_filters, sort_keys=True), in pieces: the backend is not
\* among the filters
FiltersJson(limit, min_score) ==
    << "{\"doc_type\": null, ", "\"limit\": ", IntToStr(limit), ", \"min_score\": ",
       FloatStr(min_score), ", \"topics\": null}" >>

RECURSIVE Pow31(_)
Pow31(n) == IF n = 0 THEN 1 ELSE (31 * Pow31(n - 1)) % KEY_SPACE

RECURSIVE DigestOfParts(_)
\* Digest of the concatenation of the parts
DigestOfParts(parts) ==
    IF parts = <<>> THEN 0
    ELSE (DigestOfParts(SubSeq(parts, 1, Len(parts) - 1)) * Pow31(Len(parts[Len(parts)]))
              + Digest(parts[Len(parts)])) % KEY_SPACE

ServiceCalls == ServiceQueries \X ServiceLimits \X ServiceMinScores

QueryHashOf ==
    Tabulated([c \in ServiceCalls |-> DigestOfParts(<<c[1]>> \o FiltersJson(c[2], c[3]))])

\* SearchCache._hash_query: the first 16 hexadecimal digits of the SHA-256
\* digest of the query followed by the JSON text of the filters; the stand-in
\* is the digest with KEY_SPACE keys
_hash_query(query, limit, min_score) == QueryHashOf[<<query, limit, min_score>>]

\* the fields of the dataclass SearchResult, and those without a default
RESULT_FIELDS ==
    <<"content", "document_name", "page_number", "chapter", "section", "topics",
      "score", "chunk_id">>

REQUIRED_FIELDS == Range(RESULT_FIELDS) \ {"chunk_id"}

\* the id of a row of document_chunks, whichever it is: the table is followed
\* as the bag of its rows
ROW_ID == "id"

\* a candidate of a scan as the SearchResult the service makes of it; the
\* chunks of the model carry no section, so the field holds None
AsSearchResult(x, chunk_id) ==
    [ content |-> x.content, document_name |-> x.document_name,
      page_number |-> x.page_number, chapter |-> x.chapter, section |-> None,
      topics |-> x.topics, score |-> x.score, chunk_id |-> chunk_id ]

\* VectorSearchService._search_pgvector: the rows nearest first, those below a
\* positive min_score left out, each with the id of its row
_search_pgvector(rows, query_embedding, limit, min_score) ==
    LET scored == {[ copy          |-> e.copy,
                     content       |-> e.item.content,
                     document_name |-> e.item.document_name,
                     page_number   |-> e.item.page_number,
                     chapter       |-> e.item.chapter,
                     topics        |-> e.item.topics,
                     score         |-> CosineSimilarity(e.item.embedding, query_embedding) ] :
                   e \in Entries(rows)}
        passing == {x \in scored : min_score > 0 => x.score * 10 >= min_score}
    IN {[k \in 1..Len(found) |-> AsSearchResult(found[k], ROW_ID)] :
           found \in NearestFirst(passing, limit)}

\* VectorSearchService._search_qdrant: the points search_vectors returns; the
\* payload of a point has no chunk_id
_search_qdrant(points, query_embedding, limit, min_score, qdrant_ok) ==
    {[k \in 1..Len(found) |-> AsSearchResult(found[k].payload @@ [score |-> found[k].score], None)] :
        found \in search_vectors(points, query_embedding, limit, min_score, qdrant_ok)}

\* the dict the service stores for a result: its items in the order written
ResultDict(r) == [i \in 1..Len(RESULT_FIELDS) |-> <<RESULT_FIELDS[i], r[RESULT_FIELDS[i]]>>]

\* the list cache_data of the results
CacheData(results) == [k \in 1..Len(results) |-> ResultDict(results[k])]

DictKeys(d) == {d[i][1] : i \in 1..Len(d)}

DictValue(d, key) == d[CHOOSE i \in 1..Len(d) : d[i][1] = key][2]

\* SearchResult(**r) raises TypeError unless the keys of r are fields of the
\* dataclass and every field without a default is among them
Constructible(d) ==
    /\ REQUIRED_FIELDS \subseteq DictKeys(d)
    /\ DictKeys(d) \subseteq Range(RESULT_FIELDS)

\* SearchResult(**r)
FromDict(d) ==
    [f \in Range(RESULT_FIELDS) |-> IF f \in DictKeys(d) THEN DictValue(d, f) ELSE None]

\* RedisCache.get of the search cache: <<value>>, or None, <<>>, when the key
\* is absent, when Redis raises and when json.loads raises on the data
RedisGetJson(cache, key, get_ok) ==
    IF get_ok /\ key \in DOMAIN cache /\ cache[key].data.readable
    THEN <<cache[key].data.value>>
    ELSE <<>>

\* RedisCache.set of the search cache
RedisSetJson(cache, key, value, ttl, set_ok) ==
    IF set_ok
    THEN [k \in DOMAIN cache \cup {key} |->
             IF k = key THEN [data |-> [readable |-> TRUE, value |-> value], ttl |-> ttl]
             ELSE cache[k]]
    ELSE cache

\* SearchCache.get_results
get_results(cache, query, limit, min_score, get_ok) ==
    RedisGetJson(cache, _hash_query(query, limit, min_score), get_ok)

\* SearchCache.set_results
set_results(cache, query, results, limit, min_score, set_ok) ==
    RedisSetJson(cache, _hash_query(query, limit, min_score), results, SEARCH_TTL, set_ok)

\* what a call of search did: how it ended, what it returned, where that came
\* from and the cache it left
SearchOutcome(status, results, source, cache) ==
    [status |-> status, results |-> results, source |-> source, cache |-> cache]

\* the part of search after a miss: the backend of the service is queried and
\* a non-empty result is stored; an exception of the database leaves the call
BackendSearch(cache, rows, points, use_qdrant, query, limit, min_score, use_cache, set_ok, pg_ok, qdrant_ok) ==
    IF ~use_qdrant /\ ~pg_ok
    THEN {SearchOutcome("raised", <<>>, "database", cache)}
    ELSE {SearchOutcome("ok", results, IF use_qdrant THEN "qdrant" ELSE "pgvector",
                        IF use_cache /\ results # <<>>
                        THEN set_results(cache, query, CacheData(results), limit, min_score, set_ok)
                        ELSE cache) :
             results \in IF use_qdrant
                         THEN _search_qdrant(points, generate_embedding(query), limit, min_score, qdrant_ok)
                         ELSE _search_pgvector(rows, generate_embedding(query), limit, min_score)}

\* VectorSearchService.search: the outcomes of a call
VectorSearch(cache, rows, points, use_qdrant, query, limit, min_score, use_cache, get_ok, set_ok, pg_ok, qdrant_ok) ==
    LET cached == IF use_cache THEN get_results(cache, query, limit, min_score, get_ok) ELSE <<>>
    IN IF cached # <<>>
       THEN IF \A k \in 1..Len(cached[1]) : Constructible(cached[1][k])
            THEN {SearchOutcome("ok", [k \in 1..Len(cached[1]) |-> FromDict(cached[1][k])],
                                "cache", cache)}
            ELSE {SearchOutcome("raised", <<>>, "cache", cache)}
       ELSE BackendSearch(cache, rows, points, use_qdrant, query, limit, min_score,
                          use_cache, set_ok, pg_ok, qdrant_ok)

\* the entry under a key as a call finds it
EntryState(cache, key) ==
    IF key \notin DOMAIN cache THEN "absent"
    ELSE IF ~cache[key].data.readable THEN "unreadable"
    ELSE IF \A k \in 1..Len(cache[key].data.value) : Constructible(cache[key].data.value[k])
         THEN "intact"
         ELSE "damaged"

\* a search through a service over one of the backends; Redis answers the read
\* and the write, or raises
Search ==
    \E use_qdrant \in BOOLEAN, c \in ServiceCalls, use_cache \in BOOLEAN,
       get_ok \in BOOLEAN, set_ok \in BOOLEAN, backend_ok \in BOOLEAN :
        \E done \in VectorSearch(search_cache, document_chunks, qdrant_points, use_qdrant,
                                 c[1], c[2], c[3], use_cache, get_ok, set_ok,
                                 backend_ok, backend_ok) :
            /\ search_cache' = done.cache
            /\ response' = [ op |-> "search", status |-> done.status, use_qdrant |-> use_qdrant,
                             query |-> c[1], limit |-> c[2], min_score |-> c[3],
                             use_cache |-> use_cache, get_ok |-> get_ok, set_ok |-> set_ok,
                             backend_ok |-> backend_ok,
                             stored |-> EntryState(search_cache, _hash_query(c[1], c[2], c[3])),
                             results |-> done.results, source |-> done.source ]
            /\ UNCHANGED <<docs_dir, tasks, document_chunks, qdrant_points,
                           chunking, embedding_cache, encode_calls>>
            /\ UNCHANGED <<_model, callers, highlighted_dir, page_requests>>

\* an object without its item of the key
WithoutKey(d, key) == SelectSeq(d, LAMBDA item : item[1] # key)

\* the data an entry may hold that set_results did not write: text that is not
\* JSON, and the list of the results with the score of the first one missing
Damaged(data) ==
    {[readable |-> FALSE, value |-> <<>>]} \cup
    {[readable |-> TRUE, value |-> [data.value EXCEPT ![1] = WithoutKey(data.value[1], "score")]]}

\* the data of an entry is overwritten or damaged
CorruptEntry ==
    \E key \in DOMAIN search_cache :
        /\ search_cache[key].data.readable
        /\ \A k \in 1..Len(search_cache[key].data.value) :
              Constructible(search_cache[key].data.value[k])
        /\ \E data \in Damaged(search_cache[key].data) :
              search_cache' = [search_cache EXCEPT ![key].data = data]
        /\ response' = [op |-> "corrupt", key |-> key]
        /\ UNCHANGED <<docs_dir, tasks, document_chunks, qdrant_points,
                       chunking, embedding_cache, encode_calls>>
        /\ UNCHANGED <<_model, callers, highlighted_dir, page_requests>>

\* the TTL of an entry of the search cache runs out and Redis removes it
ExpireResults ==
    \E key \in DOMAIN search_cache :
        /\ search_cache' = [k \in DOMAIN search_cache \ {key} |-> search_cache[k]]
        /\ response' = [op |-> "expire", key |-> key]
        /\ UNCHANGED <<docs_dir, tasks, document_chunks, qdrant_points,
                       chunking, embedding_cache, encode_calls>>
        /\ UNCHANGED <<_model, callers, highlighted_dir, page_requests>>

\* the stores a service starts over: one document, uploaded and ingested whole
ServiceSeeds ==
    {UploadAndIngest(seed, u, {}, TRUE) : seed \in StoresAfter(0), u \in SeedUploads}

ServiceInit ==
    \E seed \in ServiceSeeds :
        /\ docs_dir = seed.dir
        /\ tasks = {}
        /\ document_chunks = seed.rows
        /\ qdrant_points = seed.points
        /\ response = NoResponse
        /\ chunking = NoChunking
        /\ embedding_cache = <<>>
        /\ encode_calls = 0
        /\ BesideInit

\* searches through the services of both backends, while documents are deleted
\* and entries of the cache expire or are damaged
ServiceNext ==
    \/ Search
    \/ delete_document
    \/ CorruptEntry
    \/ ExpireResults

ServiceSpec == ServiceInit /\ [][ServiceNext]_vars

(***************************************************************************)
(* Properties of hybrid_search                                             *)
(***************************************************************************)
\* a hybrid_search call has returned: directly, or inside smart_search
Searched ==
    /\ response.op \in {"hybrid_search", "smart_search"}
    /\ response.search.ran
    /\ response.search.status = "ok"

SameKey(a, b) == a.document_name = b.document_name /\ a.page_number = b.page_number

\* C1: in the list hybrid_search returns no two results share (document_name,
\* page_number), and the result returned for a key has the highest combined
\* score of the admitted candidates of that key, whichever backend they came from
C1_OneBestResultPerPage ==
    Searched =>
        LET results == response.search.results
            admitted == response.search.scored_results
        IN /\ \A i, j \in 1..Len(results) : SameKey(results[i], results[j]) => i = j
           /\ \A i \in 1..Len(results), k \in 1..Len(admitted) :
                 SameKey(admitted[k], results[i])
                     => admitted[k].combined_score <= results[i].combined_score

\* two admitted candidates of one page with different scores, the lower one met
\* first, and the page is returned
C1_Witness ==
    /\ Searched
    /\ \E k, m \in 1..Len(response.search.scored_results) :
          /\ k < m
          /\ SameKey(response.search.scored_results[k], response.search.scored_results[m])
          /\ response.search.scored_results[k].combined_score
                < response.search.scored_results[m].combined_score
          /\ \E i \in 1..Len(response.search.results) :
                SameKey(response.search.results[i], response.search.scored_results[k])

\* the combined score hybrid_search computes for a stored text, from the
\* similarity of the two embeddings and the keyword score
ScoreOf(query, content) ==
    7 * CosineSimilarity(EmbeddingOf[content], EmbeddingOf[query])
        + 3 * KeywordScore[<<query, content>>]

\* C2: every result hybrid_search returns carries combined_score =
\* 0.7 * semantic_score + 0.3 * keyword_score, the two scores being those of its
\* content for the query, and its combined score is at least min_score
C2_WeightedScoreAtThreshold ==
    Searched =>
        \A i \in 1..Len(response.search.results) :
            LET r == response.search.results[i]
                query == response.search.query
            IN /\ r.semantic_score
                    = CosineSimilarity(EmbeddingOf[r.content], EmbeddingOf[query])
               /\ r.keyword_score = KeywordScore[<<query, r.content>>]
               /\ r.combined_score = 7 * r.semantic_score + 3 * r.keyword_score
               /\ r.combined_score >= response.search.min_score

\* a search under the default threshold to which both backends supplied admitted
\* results, over stores that both hold a page that is no table of contents and
\* scores 0.346: it is not returned
C2_Witness ==
    /\ Searched
    /\ response.search.min_score = RELEVANCE_THRESHOLD
    /\ response.search.pg_scored # <<>>
    /\ response.search.qdrant_scored # <<>>
    /\ \E row \in DOMAIN document_chunks, point \in DOMAIN qdrant_points :
          /\ ~TocPage[row.content]
          /\ point.payload.content = row.content
          /\ ScoreOf(response.search.query, row.content) = 34600

\* C3: hybrid_search returns at most limit results in non-increasing order of
\* combined score, and no admitted candidate of a page that is left out has a
\* strictly higher combined score than a returned result; fewer than limit
\* results are returned only when no admitted page is left out
C3_TopResultsInOrder ==
    Searched =>
        LET results == response.search.results
            admitted == response.search.scored_results
            LeftOut(a) == \A i \in 1..Len(results) : ~SameKey(a, results[i])
        IN /\ Len(results) <= response.search.limit
           /\ \A i, j \in 1..Len(results) :
                 i < j => results[i].combined_score >= results[j].combined_score
           /\ \A k \in 1..Len(admitted), i \in 1..Len(results) :
                 LeftOut(admitted[k])
                     => admitted[k].combined_score <= results[i].combined_score
           /\ \A k \in 1..Len(admitted) :
                 LeftOut(admitted[k]) => Len(results) = response.search.limit

\* limit results are returned, and an admitted candidate of another page, met
\* before every candidate of the returned pages, is left out with a lower score
C3_Witness ==
    /\ Searched
    /\ Len(response.search.results) = response.search.limit
    /\ \A i \in 1..Len(response.search.results) :
          /\ ~SameKey(response.search.scored_results[1], response.search.results[i])
          /\ response.search.scored_results[1].combined_score
                < response.search.results[i].combined_score

\* C4: hybrid_search returns no result whose content is_toc_or_index_page
\* classifies as a table of contents or an index, whichever backend supplied it
\* and whatever its score
C4_NoTocPageReturned ==
    Searched =>
        \A i \in 1..Len(response.search.results) :
            /\ ~TocPage[response.search.results[i].content]
            /\ response.search.results[i].content \notin {PAGE_TOC, PAGE_INDEX}

\* both backends hold a page classified as table of contents (one by its heading,
\* one by its page references) whose score passes the threshold, within the
\* candidates of the search, and the search returns results
C4_Witness ==
    /\ Searched
    /\ response.search.qdrant_ok
    /\ response.search.results # <<>>
    /\ BagCardinality(document_chunks) <= 3 * response.search.limit
    /\ BagCardinality(qdrant_points) <= 3 * response.search.limit
    /\ TocPage[PAGE_TOC] /\ TocPage[PAGE_INDEX]
    /\ \E row \in DOMAIN document_chunks :
          /\ row.content = PAGE_TOC
          /\ ScoreOf(response.search.query, row.content) >= response.search.min_score
    /\ \E point \in DOMAIN qdrant_points :
          /\ point.payload.content = PAGE_INDEX
          /\ 10 * CosineSimilarity(point.vector, EmbeddingOf[response.search.query])
                >= response.search.min_score
          /\ ScoreOf(response.search.query, point.payload.content)
                >= response.search.min_score

\* C5: when one of the two backends is unreachable, hybrid_search returns the
\* admitted results of the other one, and when both are unreachable it returns
\* an empty list: it never raises
C5_DegradesToReachableBackend ==
    response.op = "hybrid_search" =>
        /\ response.search.status = "ok"
        /\ response.search.pg_ok /\ ~response.search.qdrant_ok
              => response.search.scored_results = response.search.pg_scored
        /\ ~response.search.pg_ok /\ response.search.qdrant_ok
              => response.search.scored_results = response.search.qdrant_scored
        /\ ~response.search.pg_ok /\ ~response.search.qdrant_ok
              => response.search.results = <<>>

(***************************************************************************)
(* Properties of smart_search and classify_query_intent                    *)
(***************************************************************************)
\* C6: smart_search returns the intent of the query; it runs hybrid_search only
\* for a vehicle_technical query over a non-empty chunk table, and for a
\* conversational or vehicle_general query it returns an empty list without
\* counting the chunks, computing an embedding or searching
C6_RetrievalOnlyWhenTechnical ==
    response.op = "smart_search" =>
        /\ response.intent = IntentOf[response.query]
        /\ response.search.ran
              => /\ response.intent = VEHICLE_TECHNICAL
                 /\ BagCardinality(document_chunks) > 0
        /\ response.intent \in {CONVERSATIONAL, VEHICLE_GENERAL}
              => /\ ~response.search.ran
                 /\ ~response.counted
                 /\ response.status = "ok"
                 /\ response.results = <<>>

\* a vehicle_general query over non-empty stores: smart_search returns without
\* a search
C6_Witness ==
    /\ response.op = "smart_search"
    /\ response.intent = VEHICLE_GENERAL
    /\ BagCardinality(document_chunks) > 0
    /\ BagCardinality(qdrant_points) > 0
    /\ ~response.search.ran
    /\ response.status = "ok"

\* C7: a query that begins with a greeting, thanks, farewell or small talk is
\* classified conversational whatever follows (a vehicle_general question, a
\* keyword, a question word), and a query without such an opening that holds a
\* vehicle_general question is classified vehicle_general whatever else it holds
C7_PatternsBeforeKeywords ==
    response.op = "classify_query_intent" =>
        /\ response.opening # "" => response.intent = CONVERSATIONAL
        /\ response.opening = "" /\ response.general # ""
              => response.intent = VEHICLE_GENERAL

\* a greeting followed by a vehicle_general question and a remainder that holds
\* keywords and starts with a question word
C7_Witness ==
    /\ response.op = "classify_query_intent"
    /\ response.opening = "Hello "
    /\ response.general = "what color is my car "
    /\ response.rest = "how do i reset the radio"
    /\ KeywordMatches(response.rest) >= 1
    /\ StartsWithQuestion(response.rest)
    /\ response.intent = CONVERSATIONAL

(***************************************************************************)
(* Properties of ingestion and deletion                                    *)
(***************************************************************************)
\* the number of rows that hold the chunk of a document at an index
RowsOfChunk(document_name, chunk_index) ==
    BagCardinality(BagFilter(document_chunks,
        {row \in DOMAIN document_chunks :
            row.document_name = document_name /\ row.chunk_index = chunk_index}))

\* the number of points that hold the chunk of a document at an index
PointsOfChunk(document_name, chunk_index) ==
    BagCardinality(BagFilter(qdrant_points,
        {point \in DOMAIN qdrant_points :
            /\ point.payload.document_name = document_name
            /\ point.payload.chunk_index = chunk_index}))

\* C8: once background_ingest_document has ingested a document, again or for
\* the first time, the relational table and the Qdrant collection each hold one
\* set of its chunks: no chunk index of the document is stored twice
C8_ReingestReplaces ==
    response.op = "background_ingest_document" /\ response.status = "ok" =>
        /\ \A row \in DOMAIN document_chunks :
              row.document_name = response.filename
                  => RowsOfChunk(response.filename, row.chunk_index) = 1
        /\ \A point \in DOMAIN qdrant_points :
              point.payload.document_name = response.filename
                  => PointsOfChunk(response.filename, point.payload.chunk_index) = 1

\* C9: once ingest_all_documents has returned, no chunk that was stored before
\* the call is left in either store: nothing was kept, every stored chunk
\* belongs to a file of this run, and no chunk index of a file is stored twice
C9_BulkIngestReplaces ==
    response.op = "ingest_all_documents" /\ response.status = "ok" =>
        /\ response.kept = 0
        /\ \A row \in DOMAIN document_chunks :
              /\ row.document_name \in DOMAIN response.results
              /\ RowsOfChunk(row.document_name, row.chunk_index) = 1
        /\ \A point \in DOMAIN qdrant_points :
              /\ point.payload.document_name \in DOMAIN response.results
              /\ PointsOfChunk(point.payload.document_name, point.payload.chunk_index) = 1

\* C10: once delete_document has returned successfully, neither store holds a
\* chunk whose document name is the name the file is stored under
C10_DeleteRemovesChunks ==
    response.op = "delete_document" /\ response.status = "ok" =>
        /\ \A row \in DOMAIN document_chunks :
              row.document_name # response.safe_filename
        /\ \A point \in DOMAIN qdrant_points :
              point.payload.document_name # response.safe_filename

\* the chunk indexes of a document whose INSERT does not raise in a call
InsertedIndexes(call) ==
    IF call.pg_ok THEN (0..(call.attempted - 1)) \ call.failing ELSE {}

\* C11: when the INSERT of a chunk fails in ingest_document, the other chunks of
\* the document are committed (those before the failure stay stored, those after
\* it are stored), and the count returned is the number of rows the call
\* committed to document_chunks
C11_CountsCommittedChunks ==
    response.op = "ingest_document" /\ response.status = "ok" =>
        /\ response.count = response.committed
        /\ response.committed = Cardinality(InsertedIndexes(response))
        /\ \A chunk_index \in InsertedIndexes(response) :
              RowsOfChunk(response.document_name, chunk_index) >= 1

\* C12: when the embedding of a chunk cannot be computed, ingest_document
\* returns and has stored every other chunk of the document
C12_EmbeddingFailureSkipsOneChunk ==
    response.op = "ingest_document" /\ response.pg_ok /\ response.failing = {} =>
        /\ response.status = "ok"
        /\ response.committed
              = Cardinality((0..(response.attempted - 1)) \ response.embed_failing)

(***************************************************************************)
(* Properties of chunk_text                                                *)
(***************************************************************************)
\* a chunk_text call has returned
Chunked == response.op = "chunk_text" /\ response.status = "returned"

\* C13: for a text no longer than chunk_size, chunk_text returns exactly one
\* chunk, and the chunk is the text with its leading and trailing whitespace
\* removed
C13_ShortTextIsOneTrimmedChunk ==
    Chunked /\ Len(response.text) <= response.chunk_size =>
        response.chunks = <<StrStrip(response.text)>>

\* C14: no chunk chunk_text returns is empty or made of whitespace only, on the
\* short-text path and on the windowed path
C14_NoEmptyChunk ==
    Chunked =>
        \A k \in 1..Len(response.chunks) : StrStrip(response.chunks[k]) # ""

\* the 0-based position p of the text lies in the window text[start:end]
InWindow(text, p, window) ==
    /\ PyIndex(window.start, Len(text)) <= p
    /\ p < PyIndex(window.end, Len(text))

\* C15: for a text longer than chunk_size, every position of the text lies in
\* a window chunk_text cut, and when the character at the position is not
\* whitespace the stripped text of such a window is among the chunks returned
C15_WindowsCoverText ==
    Chunked /\ Len(response.text) > response.chunk_size =>
        \A p \in 0..(Len(response.text) - 1) :
            \E k \in 1..Len(response.windows) :
                /\ InWindow(response.text, p, response.windows[k])
                /\ ~IsSpace(Char(response.text, p + 1))
                      => \E c \in 1..Len(response.chunks) :
                            /\ response.chunks[c]
                                  = StrStrip(Slice(response.text, response.windows[k].start,
                                                   response.windows[k].end))
                            /\ StrContains(response.chunks[c], Char(response.text, p + 1))

\* a call with an overlap returned after three windows or more, one of them cut
\* back to a sentence boundary and one whose stripped text was empty
C15_Witness ==
    /\ Chunked
    /\ response.overlap > 0
    /\ Len(response.windows) >= 3
    /\ Len(response.chunks) < Len(response.windows)
    /\ \E k \in 1..Len(response.windows) :
          /\ response.windows[k].end < Len(response.text)
          /\ response.windows[k].end < response.windows[k].start + response.chunk_size

\* C16: at every iteration of the loop of chunk_text the window start strictly
\* increases, for every text and every 0 <= overlap < chunk_size, also when
\* the window end is pulled back to a sentence boundary
C16_StartStrictlyIncreases ==
    [][chunking.active /\ chunking'.active => chunking'.start > chunking.start]_vars

(***************************************************************************)
(* Properties of process_pdf_document                                      *)
(***************************************************************************)
\* the pages of a PDF up to page page_number that show a chapter header in
\* their inspected lines
HeaderPages(pdf, page_number) ==
    {p \in 1..page_number : extract_chapter_section(pdf[p]) # NoChapter}

\* the chapter header most recently seen up to a page: that of the last page
\* with a header, none before the first header
LastHeader(pdf, page_number) ==
    IF HeaderPages(pdf, page_number) = {} THEN NoChapter
    ELSE extract_chapter_section(pdf[MaxOf(HeaderPages(pdf, page_number))])

\* C17: every chunk process_pdf_document returns carries as its chapter the
\* chapter header most recently seen on its own page or on an earlier page of
\* the document, and no chapter before the first header
C17_ChapterCarriedForward ==
    response.op = "process_pdf_document" =>
        \A k \in 1..Len(response.chunks_data) :
            response.chunks_data[k].chapter
                = LastHeader(response.pdf, response.chunks_data[k].page_number)

(***************************************************************************)
(* Properties of detect_topics                                             *)
(***************************************************************************)
\* the topics of TOPIC_ORDER
Topics == Range(TOPIC_ORDER)

\* the number of occurrences of the keywords of a topic in a text, whatever
\* the case of its letters: every position where a keyword occurs counts
Occurrences(text, topic) ==
    Cardinality({at \in TOPIC_KEYWORDS(topic) \X (1..Len(text)) :
                    OccursAt(StrLower(text), at[1], at[2])})

\* the number of keywords of a topic that occur in a text, whatever the case
\* of its letters: a keyword that occurs several times counts once
KeywordsPresent(text, topic) ==
    Cardinality({kw \in TOPIC_KEYWORDS(topic) :
                    \E i \in 1..Len(text) : OccursAt(StrLower(text), kw, i)})

\* the result of detect_topics is not empty, holds "general" only alone, and
\* tagging the same text again gives the same result
TopicsWellFormed ==
    /\ response.topics # <<>>
    /\ "general" \in Range(response.topics) => response.topics = <<"general">>
    /\ \A k \in 1..Len(response.retagged) : response.retagged[k] = response.topics

\* C18 as stated: detect_topics returns exactly the topics whose keyword set
\* has at least 2 keyword occurrences in the text, or "general" alone when no
\* set has 2
C18_TwoOccurrencesTagTopic ==
    response.op = "detect_topics" =>
        /\ TopicsWellFormed
        /\ LET tagged == {topic \in Topics : Occurrences(response.text, topic) >= 2}
           IN Range(response.topics) = IF tagged = {} THEN {"general"} ELSE tagged

\* C18 amended: detect_topics returns exactly the topics of whose keyword set
\* at least 2 different keywords occur in the text, or "general" alone when
\* no set has 2; a keyword that occurs twice counts once
C18_TwoKeywordsTagTopic ==
    response.op = "detect_topics" =>
        /\ TopicsWellFormed
        /\ LET tagged == {topic \in Topics : KeywordsPresent(response.text, topic) >= 2}
           IN Range(response.topics) = IF tagged = {} THEN {"general"} ELSE tagged

\* a text with capitals that got two topics and was tagged again
C18_Witness ==
    /\ response.op = "detect_topics"
    /\ response.retagged # <<>>
    /\ response.text # StrLower(response.text)
    /\ Len(response.topics) >= 2

(***************************************************************************)
(* Properties of the embedding cache                                       *)
(***************************************************************************)
\* the step is a call of generate_embedding with the cache enabled and
\* reachable
CachedCall ==
    /\ response'.op = "generate_embedding"
    /\ response'.use_cache /\ response'.get_ok /\ response'.set_ok

\* the step is a call of either function that found Redis reachable
ReachableCall ==
    /\ response'.op \in {"generate_embedding", "generate_embeddings"}
    /\ response'.get_ok /\ response'.set_ok

\* C19: with the cache enabled and reachable, a call of generate_embedding(t)
\* that finds an entry under the key of t returns the vector stored there
\* without invoking the model and leaves the cache as it is; a call that finds
\* none invokes the model once, stores its vector with the TTL and returns it;
\* and an entry, once stored, stays as it is under every call that finds Redis
\* reachable, until it expires or the cache is lost
C19_HitReturnsStoredMissStores ==
    [][ /\ CachedCall =>
             IF _hash_text(response'.text) \in DOMAIN embedding_cache
             THEN /\ embedding_cache[_hash_text(response'.text)].data
                        = json_dumps(response'.vector)
                  /\ encode_calls' = encode_calls
                  /\ embedding_cache' = embedding_cache
             ELSE /\ encode_calls' = encode_calls + 1
                  /\ response'.vector = Encode(response'.text)
                  /\ DOMAIN embedding_cache'
                        = DOMAIN embedding_cache \cup {_hash_text(response'.text)}
                  /\ embedding_cache'[_hash_text(response'.text)]
                        = [data |-> json_dumps(response'.vector), ttl |-> EMBEDDING_TTL]
        /\ ReachableCall =>
             \A key \in DOMAIN embedding_cache :
                 /\ key \in DOMAIN embedding_cache'
                 /\ embedding_cache'[key] = embedding_cache[key] ]_vars

\* a call with the cache enabled and reachable was answered from the cache,
\* without invoking the model, after the model had computed the vector
C19_Witness ==
    /\ response.op = "generate_embedding"
    /\ response.use_cache /\ response.get_ok /\ response.set_ok
    /\ response.encoded = 0
    /\ encode_calls >= 1
    /\ response.vector = Encode(response.text)

ServiceSearched == response.op = "search" /\ response.use_cache

\* C21: the caches fail open.  A search whose read of the cache fails, or which
\* finds an unreadable or damaged entry, takes it for a miss: it returns what
\* the backend computes, and no search raises on account of the cache, a
\* failed write included.
C21_CacheFailsOpen ==
    ServiceSearched =>
        /\ (~response.get_ok \/ response.stored \in {"unreadable", "damaged"})
               => response.source # "cache"
        /\ response.status = "raised" => response.source = "database"

\* a search found a readable entry that is not a list of results, and raised
C21_DamagedEntryRaises ==
    /\ ServiceSearched
    /\ response.get_ok
    /\ response.stored = "damaged"
    /\ response.status = "raised"
    /\ response.source = "cache"

\* a search found an unreadable entry and returned what the backend computed
C21_UnreadableIsMiss ==
    /\ ServiceSearched
    /\ response.stored = "unreadable"
    /\ response.status = "ok"
    /\ response.source \in {"pgvector", "qdrant"}
    /\ response.results # <<>>

\* the result is made of a chunk the backend of the service holds now
InBackingStore(r, use_qdrant) ==
    IF use_qdrant
    THEN \E p \in DOMAIN qdrant_points :
            /\ p.payload.content = r.content
            /\ p.payload.document_name = r.document_name
            /\ p.payload.page_number = r.page_number
    ELSE \E row \in DOMAIN document_chunks :
            /\ row.content = r.content
            /\ row.document_name = r.document_name
            /\ row.page_number = r.page_number

\* the result is one the backend of the service computes: a row of the table
\* comes with its id, a point of the collection without one
ComputedBy(r, use_qdrant) == r.chunk_id = IF use_qdrant THEN None ELSE ROW_ID

\* C30: a search with the cache enabled reflects the stores as they are.  Every
\* result it returns is a chunk that the backend of the service holds at the
\* time of the search, also after a document was deleted, and is a result that
\* this backend computed, not the other one.
C30_SearchReflectsStores ==
    (ServiceSearched /\ response.status = "ok") =>
        \A k \in 1..Len(response.results) :
            /\ InBackingStore(response.results[k], response.use_qdrant)
            /\ ComputedBy(response.results[k], response.use_qdrant)

\* a search returned from the cache a chunk of a document deleted from the
\* backend of the service
C30_DeletedChunkReturned ==
    /\ ServiceSearched
    /\ response.status = "ok"
    /\ response.source = "cache"
    /\ response.results # <<>>
    /\ ~InBackingStore(response.results[1], response.use_qdrant)

\* a search through Qdrant returned from the cache what pgvector computed
C30_OtherBackendReturned ==
    /\ ServiceSearched
    /\ response.status = "ok"
    /\ response.source = "cache"
    /\ response.use_qdrant
    /\ response.results # <<>>
    /\ response.results[1].chunk_id = ROW_ID

(***************************************************************************)
(* The embedding model (services/embeddings.py): get_model, one step of a  *)
(* thread at a time.  Handlers declared async run on the thread of the     *)
(* event loop and background_ingest_document, a plain function, runs on a  *)
(* thread of the pool, so that calls of get_model interleave.  A model is  *)
(* named after the thread that constructed it.                             *)
(***************************************************************************)
\* the threads that call get_model
ModelThreads == {"event loop", "pool thread 1", "pool thread 2"}

\* the functions that call get_model
ModelCallers == {"generate_embedding", "generate_embeddings", "preload_model"}

\* a thread inside get_model: the line it is at, the model it has constructed
\* and not yet assigned, the model it was returned
Frame(via, pc, built, got) == [via |-> via, pc |-> pc, built |-> built, got |-> got]

SetCaller(t, frame) == [u \in DOMAIN callers \cup {t} |-> IF u = t THEN frame ELSE callers[u]]

ModelFrame == <<docs_dir, tasks, document_chunks, qdrant_points, response, chunking,
                embedding_cache, encode_calls, search_cache, highlighted_dir, page_requests>>

\* a thread calls get_model
get_model_call ==
    \E t \in ModelThreads \ DOMAIN callers, via \in ModelCallers :
        /\ callers' = SetCaller(t, Frame(via, "test", None, None))
        /\ UNCHANGED _model
        /\ UNCHANGED ModelFrame

\* `if _model is None:`
get_model_test ==
    \E t \in DOMAIN callers :
        /\ callers[t].pc = "test"
        /\ callers' = SetCaller(t, [callers[t] EXCEPT
                                       !.pc = IF _model = None THEN "construct" ELSE "return"])
        /\ UNCHANGED _model
        /\ UNCHANGED ModelFrame

\* SentenceTransformer('all-MiniLM-L6-v2') is evaluated
get_model_construct ==
    \E t \in DOMAIN callers :
        /\ callers[t].pc = "construct"
        /\ callers' = SetCaller(t, [callers[t] EXCEPT !.pc = "assign", !.built = t])
        /\ UNCHANGED _model
        /\ UNCHANGED ModelFrame

\* `_model = ...`
get_model_assign ==
    \E t \in DOMAIN callers :
        /\ callers[t].pc = "assign"
        /\ _model' = callers[t].built
        /\ callers' = SetCaller(t, [callers[t] EXCEPT !.pc = "return"])
        /\ UNCHANGED ModelFrame

\* `return _model`
get_model_return ==
    \E t \in DOMAIN callers :
        /\ callers[t].pc = "return"
        /\ callers' = SetCaller(t, [callers[t] EXCEPT !.pc = "returned", !.got = _model])
        /\ UNCHANGED _model
        /\ UNCHANGED ModelFrame

ModelNext ==
    \/ get_model_call
    \/ get_model_test
    \/ get_model_construct
    \/ get_model_assign
    \/ get_model_return

ModelSpec == Init /\ [][ModelNext]_vars

(***************************************************************************)
(* Properties of get_model                                                 *)
(***************************************************************************)
\* the models constructed so far
Constructed == {callers[t].built : t \in DOMAIN callers} \ {None}

\* the models the callers were returned
Received == {callers[t].got : t \in {u \in DOMAIN callers : callers[u].pc = "returned"}}

\* C22: under any interleaving of concurrent first calls of get_model the model
\* is constructed at most once, and all callers are returned that one instance.
C22_ModelConstructedOnce ==
    /\ Cardinality(Constructed) <= 1
    /\ Cardinality(Received) <= 1

\* two threads have both constructed a model and were returned different ones
C22_TwoModels ==
    \E t, u \in DOMAIN callers :
        /\ callers[t].pc = "returned" /\ callers[u].pc = "returned"
        /\ callers[t].built = t /\ callers[u].built = u
        /\ callers[t].got # callers[u].got

(***************************************************************************)
(* The dimension of the embeddings.  The vectors of the model stand for    *)
(* the vectors of the generator, whose dimension is                        *)
(* get_embedding_dimension; a store takes a vector of the dimension it was *)
(* declared with and rejects any other.                                    *)
(***************************************************************************)
\* embeddings.get_embedding_dimension
get_embedding_dimension == 384

\* Column(Vector(1536)): the dimension of the column embedding of document_chunks
VECTOR_COLUMN_DIMENSION == 1536

\* the vector_size of ensure_collection, which every caller leaves at its default
COLLECTION_VECTOR_SIZE == 384

\* a column of type vector(n) takes the vectors of dimension n
FitsColumn(dimension) == dimension = VECTOR_COLUMN_DIMENSION

\* a collection created with size n takes the vectors of dimension n
FitsCollection(dimension) == dimension = COLLECTION_VECTOR_SIZE

\* an ingestion has made embeddings for the chunks of a document and has
\* written them to the stores
EmbeddingsWritten ==
    /\ response.op = "ingest_document"
    /\ response.status = "ok"
    /\ response.attempted > 0

\* C23: the dimension of the embeddings is one constant over the generator, the
\* vector column of the chunk table and the collection of the vector database:
\* the vectors an ingestion writes fit both stores.
C23_OneEmbeddingDimension ==
    EmbeddingsWritten =>
        /\ FitsColumn(get_embedding_dimension)
        /\ FitsCollection(get_embedding_dimension)
        /\ VECTOR_COLUMN_DIMENSION = COLLECTION_VECTOR_SIZE

\* the vectors an ingestion writes fit the collection and not the column
C23_ColumnOfAnotherDimension ==
    /\ EmbeddingsWritten
    /\ FitsCollection(get_embedding_dimension)
    /\ ~FitsColumn(get_embedding_dimension)

(***************************************************************************)
(* Highlighted pages (services/page_images.py, api/pages.py).              *)
(* highlighted_dir is HIGHLIGHTED_DIR: under each file name the image in   *)
(* the file, whether it is written to its end, and the request that wrote  *)
(* it.  page_requests holds the requests in progress, one step at a time.  *)
(***************************************************************************)
\* the characters of a text in the order sorted() compares them
CODE_ORDER == " " \o DIGITS \o UPPER \o "_" \o LOWER

CodePoint(c) == CHOOSE i \in 1..Len(CODE_ORDER) : Char(CODE_ORDER, i) = c

RECURSIVE StrLess(_, _)
\* a < b of two strings
StrLess(a, b) ==
    IF b = "" THEN FALSE
    ELSE IF a = "" THEN TRUE
    ELSE IF Char(a, 1) # Char(b, 1) THEN CodePoint(Char(a, 1)) < CodePoint(Char(b, 1))
    ELSE StrLess(SubSeq(a, 2, Len(a)), SubSeq(b, 2, Len(b)))

RECURSIVE Sorted(_)
\* sorted(search_terms)
Sorted(terms) ==
    IF terms = <<>> THEN <<>>
    ELSE LET least == CHOOSE i \in 1..Len(terms) :
                          \A j \in 1..Len(terms) : ~StrLess(terms[j], terms[i])
         IN <<terms[least]>> \o
            Sorted([k \in 1..(Len(terms) - 1) |-> IF k < least THEN terms[k] ELSE terms[k + 1]])

RECURSIVE JoinWith(_, _)
\* sep.join(items)
JoinWith(sep, items) ==
    IF items = <<>> THEN ""
    ELSE IF Len(items) = 1 THEN items[1]
    ELSE items[1] \o sep \o JoinWith(sep, Tail(items))

\* Path(filename).stem: the name without its last suffix
Stem(filename) ==
    LET dot == MaxOf({i \in 1..Len(filename) : Char(filename, i) = "."} \cup {0})
    IN IF 1 < dot /\ dot < Len(filename) THEN SubSeq(filename, 1, dot - 1) ELSE filename

RECURSIVE SubNonWord(_)
\* re.sub(r'[^\w\-]', '_', name)
SubNonWord(name) ==
    IF name = "" THEN ""
    ELSE (IF Char(name, 1) \in WordChars \cup {"-"} THEN Char(name, 1) ELSE "_")
             \o SubNonWord(SubSeq(name, 2, Len(name)))

\* the length safe names are cut to
SAFE_NAME_LENGTH == 100

\* page_images.sanitize_filename
page_sanitize_filename(filename) == Take(SubNonWord(Stem(filename)), SAFE_NAME_LENGTH)

\* get_page_image_paths: the files of the thumbnail and of the full-size image
get_page_image_paths(document_name, page_number) ==
    [ thumbnail |-> "thumbnails/" \o page_sanitize_filename(document_name)
                        \o "_page_" \o IntToStr(page_number) \o ".png",
      fullsize  |-> "fullsize/" \o page_sanitize_filename(document_name)
                        \o "_page_" \o IntToStr(page_number) \o ".png" ]

\* hashlib.md5(...).hexdigest()[:8] of the sorted terms joined by "_": one of
\* 2^32 values; the stand-in is the digest with KEY_SPACE values
terms_hash(search_terms) == IntToStr(Digest(JoinWith("_", Sorted(search_terms))))

\* the file of a highlighted page
highlighted_path(document_name, page_number, search_terms) ==
    "highlighted/" \o page_sanitize_filename(document_name) \o "_page_"
        \o IntToStr(page_number) \o "_" \o terms_hash(search_terms) \o ".png"

\* the documents whose pages are requested: their names differ and their safe
\* names are the same
PageDocuments == {"om 1.pdf", "om_1.pdf"}

PagePdfs == [d \in PageDocuments |-> IF d = "om 1.pdf" THEN PDF_MANUAL ELSE PDF_REPORT]

\* the page requested: one document has it and the other has not
PageNumbers == {2}

\* the lists of terms: three lists of one set of terms, and a list of another
\* set that is joined to the same text
TermLists == {<<"oil", "filter">>, <<"filter", "oil">>, <<"oil", "filter", "oil">>, <<"filter_oil">>}

\* the image of a page with the terms highlighted: the page, and the places at
\* which a term occurs in it
Rendered(pdf, page_number, search_terms) ==
    [ page  |-> pdf[page_number],
      marks |-> {i \in 1..Len(pdf[page_number]) :
                    \E k \in 1..Len(search_terms) :
                        OccursAt(StrLower(pdf[page_number]), StrLower(search_terms[k]), i)} ]

PageInputs == PageDocuments \X PageNumbers \X TermLists

RenderedOf == Tabulated([c \in PageInputs |-> IF c[2] <= Len(PagePdfs[c[1]])
                                              THEN Rendered(PagePdfs[c[1]], c[2], c[3])
                                              ELSE <<>>])

SafePageName == Tabulated([f \in PageDocuments |-> page_sanitize_filename(f)])

PathOf == Tabulated([c \in PageInputs |-> highlighted_path(c[1], c[2], c[3])])

EndsWith(s, p) == Len(s) >= Len(p) /\ SubSeq(s, Len(s) - Len(p) + 1, Len(s)) = p

\* get_pdf_path_for_document: the files of the directory the name may be
\* resolved to, none when the set is empty -- the file of that name, the file
\* of that name with .pdf appended, or else any file whose safe name contains
\* the safe name of the document
get_pdf_path_for_document(files, document_name) ==
    IF document_name \in files THEN {document_name}
    ELSE IF ~EndsWith(document_name, ".pdf") /\ (document_name \o ".pdf") \in files
         THEN {document_name \o ".pdf"}
         ELSE {f \in files : StrContains(SafePageName[f], SafePageName[document_name])}

PdfPathOf ==
    Tabulated([c \in (SUBSET PageDocuments) \X PageDocuments |->
                  get_pdf_path_for_document(c[1], c[2])])

\* the requests that can be in progress at once
PageRequestIds == {1, 2}

PageFrame == <<tasks, document_chunks, qdrant_points, chunking, embedding_cache,
               encode_calls, search_cache, _model, callers>>

SetRequest(r, frame) ==
    [u \in DOMAIN page_requests \cup {r} |-> IF u = r THEN frame ELSE page_requests[u]]

DropRequest(r) == [u \in DOMAIN page_requests \ {r} |-> page_requests[u]]

\* the response of a highlighted-page request
PageResponse(frame, status, file) ==
    [ op |-> "get_page_highlighted", status |-> status,
      document_name |-> frame.document_name, page_number |-> frame.page_number,
      terms |-> frame.terms, path |-> frame.path, had_cache |-> frame.had_cache,
      pdf_on_disk |-> frame.pdf_on_disk, opened |-> frame.opened, file |-> file ]

NoFile == [written |-> FALSE]

\* get_page_highlighted is entered with terms: the PDF is looked up, and the
\* request ends with 404 when none is found
get_page_highlighted ==
    \E r \in PageRequestIds \ DOMAIN page_requests, c \in PageInputs :
        LET found == PdfPathOf[<<DOMAIN docs_dir, c[1]>>]
            Begin(pdf_path) ==
                [ document_name |-> c[1], page_number |-> c[2], terms |-> c[3],
                  path |-> PathOf[c], pdf_path |-> pdf_path, pc |-> "exists",
                  had_cache |-> PathOf[c] \in DOMAIN highlighted_dir,
                  pdf_on_disk |-> c[1] \in DOMAIN docs_dir, opened |-> FALSE ]
        IN /\ IF found = {}
              THEN /\ response' = PageResponse(Begin(""), 404, NoFile)
                   /\ UNCHANGED page_requests
              ELSE /\ \E pdf_path \in found : page_requests' = SetRequest(r, Begin(pdf_path))
                   /\ UNCHANGED response
           /\ UNCHANGED <<docs_dir, highlighted_dir>>
           /\ UNCHANGED PageFrame

\* get_highlighted_page: `if highlighted_path.exists()`
highlighted_exists ==
    \E r \in DOMAIN page_requests :
        /\ page_requests[r].pc = "exists"
        /\ page_requests' =
               SetRequest(r, [page_requests[r] EXCEPT
                                 !.pc = IF page_requests[r].path \in DOMAIN highlighted_dir
                                        THEN "respond" ELSE "open"])
        /\ UNCHANGED <<docs_dir, highlighted_dir, response>>
        /\ UNCHANGED PageFrame

\* the file written so far or to its end
FileOf(frame, complete) ==
    [ written  |-> TRUE,
      complete |-> complete,
      image    |-> frame.image,
      by       |-> [ document_name |-> frame.document_name,
                     page_number |-> frame.page_number, terms |-> Range(frame.terms) ] ]

\* fitz.open(pdf_path) and the rendering of the page: the request ends with 500
\* when the PDF is gone and with 404 when it has no such page
highlighted_open ==
    \E r \in DOMAIN page_requests :
        LET frame == page_requests[r]
        IN /\ frame.pc = "open"
           /\ IF frame.pdf_path \notin DOMAIN docs_dir
              THEN /\ response' = PageResponse(frame, 500, NoFile)
                   /\ page_requests' = DropRequest(r)
              ELSE IF frame.page_number > Len(docs_dir[frame.pdf_path])
                   THEN /\ response' = PageResponse([frame EXCEPT !.opened = TRUE], 404, NoFile)
                        /\ page_requests' = DropRequest(r)
                   ELSE /\ page_requests' =
                               SetRequest(r, [ pc |-> "save", opened |-> TRUE,
                                               image |-> RenderedOf[<<frame.pdf_path,
                                                                      frame.page_number,
                                                                      frame.terms>>] ]
                                                 @@ frame)
                        /\ UNCHANGED response
           /\ UNCHANGED <<docs_dir, highlighted_dir>>
           /\ UNCHANGED PageFrame

\* pix.save(highlighted_path) opens the file and starts to write
highlighted_save ==
    \E r \in DOMAIN page_requests :
        /\ page_requests[r].pc = "save"
        /\ highlighted_dir' =
               [p \in DOMAIN highlighted_dir \cup {page_requests[r].path} |->
                   IF p = page_requests[r].path THEN FileOf(page_requests[r], FALSE)
                   ELSE highlighted_dir[p]]
        /\ page_requests' = SetRequest(r, [page_requests[r] EXCEPT !.pc = "saving"])
        /\ UNCHANGED <<docs_dir, response>>
        /\ UNCHANGED PageFrame

\* pix.save has written the image to its end
highlighted_saved ==
    \E r \in DOMAIN page_requests :
        /\ page_requests[r].pc = "saving"
        /\ highlighted_dir' =
               [highlighted_dir EXCEPT ![page_requests[r].path] = FileOf(page_requests[r], TRUE)]
        /\ page_requests' = SetRequest(r, [page_requests[r] EXCEPT !.pc = "respond"])
        /\ UNCHANGED <<docs_dir, response>>
        /\ UNCHANGED PageFrame

\* FileResponse(highlighted_path): the file is sent as it is
highlighted_respond ==
    \E r \in DOMAIN page_requests :
        /\ page_requests[r].pc = "respond"
        /\ response' = PageResponse(page_requests[r], 200, highlighted_dir[page_requests[r].path])
        /\ page_requests' = DropRequest(r)
        /\ UNCHANGED <<docs_dir, highlighted_dir>>
        /\ UNCHANGED PageFrame

\* the source PDF of a document is deleted from disk, as after its ingestion
unlink_pdf ==
    \E f \in DOMAIN docs_dir :
        /\ docs_dir' = RemoveFile(docs_dir, f)
        /\ response' = [op |-> "unlink", filename |-> f]
        /\ UNCHANGED <<highlighted_dir, page_requests>>
        /\ UNCHANGED PageFrame

\* the PDFs of the documents are on disk and no page is highlighted yet
PageInit ==
    /\ docs_dir = PagePdfs
    /\ tasks = {}
    /\ document_chunks = EmptyBag
    /\ qdrant_points = EmptyBag
    /\ response = NoResponse
    /\ chunking = NoChunking
    /\ embedding_cache = <<>>
    /\ encode_calls = 0
    /\ BesideInit

\* requests served by several workers over one directory of images
PageNext ==
    \/ get_page_highlighted
    \/ highlighted_exists
    \/ highlighted_open
    \/ highlighted_save
    \/ highlighted_saved
    \/ highlighted_respond
    \/ unlink_pdf

PageSpec == PageInit /\ [][PageNext]_vars

(***************************************************************************)
(* Properties of the highlighted pages                                     *)
(***************************************************************************)
\* a highlighted-page request has ended
PageAnswered == response.op = "get_page_highlighted"

\* C24: a highlighted-page request whose highlighted image exists when it
\* arrives is answered with that image and the source PDF is not opened, also
\* when the PDF has been deleted; the PDF is needed only when there is no such
\* image.
C24_CachedImageReturned ==
    (PageAnswered /\ response.had_cache) =>
        /\ response.status = 200
        /\ response.file.written
        /\ ~response.opened

\* the image of a request existed and its PDF was deleted: the answer is 404
C24_CachedImageNotFound ==
    /\ PageAnswered
    /\ response.had_cache
    /\ ~response.pdf_on_disk
    /\ response.status = 404

\* C25: of concurrent highlighted-page requests with one cache key, each is
\* answered with an image that is written to its end; none is answered with
\* the file while another request is still writing it.
C25_CompleteImageReturned ==
    (PageAnswered /\ response.status = 200) =>
        /\ response.file.complete
        /\ \A r \in DOMAIN page_requests :
              page_requests[r].path = response.path => page_requests[r].pc # "saving"

\* a request was answered with a file that another request was still writing
C25_PartialImageReturned ==
    /\ PageAnswered
    /\ response.status = 200
    /\ ~response.file.complete
    /\ \E r \in DOMAIN page_requests :
          page_requests[r].path = response.path /\ page_requests[r].pc = "saving"

ImagePathsOf ==
    Tabulated([c \in PageDocuments \X PageNumbers |-> get_page_image_paths(c[1], c[2])])

\* what the file of a highlighted page is to identify
KeyInputs(document_name, page_number, terms) ==
    [document_name |-> document_name, page_number |-> page_number, terms |-> Range(terms)]

\* C28: the names of the image files identify their inputs.  Two highlighted
\* requests have the same file exactly when they have the same document, page
\* and set of terms, and two different document names never have the same
\* thumbnail, full-size or highlighted file of a page.
C28_FilesIdentifyInputs ==
    (PageAnswered /\ response.status = 200) =>
        LET inputs == KeyInputs(response.document_name, response.page_number, response.terms)
        IN \A p \in DOMAIN highlighted_dir :
              /\ (p = response.path) <=> (highlighted_dir[p].by = inputs)
              /\ highlighted_dir[p].by.document_name # response.document_name =>
                    /\ p # response.path
                    /\ ImagePathsOf[<<highlighted_dir[p].by.document_name, response.page_number>>].thumbnail
                          # ImagePathsOf[<<response.document_name, response.page_number>>].thumbnail
                    /\ ImagePathsOf[<<highlighted_dir[p].by.document_name, response.page_number>>].fullsize
                          # ImagePathsOf[<<response.document_name, response.page_number>>].fullsize

\* a request for a document was answered with the highlighted page of another
C28_OtherDocumentSameFile ==
    /\ PageAnswered
    /\ response.status = 200
    /\ response.file.complete
    /\ response.file.by.document_name # response.document_name

\* a request was answered with the file of another set of terms
C28_OtherTermsSameFile ==
    /\ PageAnswered
    /\ response.status = 200
    /\ response.file.by.document_name = response.document_name
    /\ response.file.by.terms # Range(response.terms)

\* two requests with the same document, page and set of terms have two files
C28_SameInputsOtherFile ==
    /\ PageAnswered
    /\ response.status = 200
    /\ \E p \in DOMAIN highlighted_dir :
          /\ p # response.path
          /\ highlighted_dir[p].by
                 = KeyInputs(response.document_name, response.page_number, response.terms)

(***************************************************************************)
(* Properties of the cut of a window                                       *)
(***************************************************************************)
\* at the 0-based position p of the text stands a period, an exclamation mark
\* or a question mark, followed by a space or a newline
SentenceEndAt(text, p) ==
    /\ p + 2 <= Len(text)
    /\ Char(text, p + 1) \in {".", "!", "?"}
    /\ Char(text, p + 2) \in {" ", "\n"}

\* the sentence ends of the window from start, whitespace included, that leave
\* at least least characters in the chunk
Boundaries(text, start, chunk_size, least) ==
    {p \in start..(start + chunk_size - 2) :
        SentenceEndAt(text, p) /\ p + 1 - start >= least}

\* the window is one that does not reach the end of the text
CutBeforeEnd(call, window) ==
    window.start >= 0 /\ window.start + call.chunk_size < Len(call.text)

\* C26: when a window of chunk_text does not reach the end of the text, it is
\* cut just after the sentence end nearest to the window end, whichever its
\* punctuation, among those that leave at least half of chunk_size in the
\* chunk, and at the window end only when there is none.
C26_CutAtNearestSentenceEnd ==
    Chunked /\ Len(response.text) > response.chunk_size =>
        \A k \in 1..Len(response.windows) :
            CutBeforeEnd(response, response.windows[k]) =>
                LET start == response.windows[k].start
                    ends == Boundaries(response.text, start, response.chunk_size,
                                       (response.chunk_size + 1) \div 2)
                IN response.windows[k].end =
                       IF ends # {} THEN MaxOf(ends) + 1 ELSE start + response.chunk_size

\* a window was cut after a sentence end although a sentence end of another
\* punctuation lies nearer to the window end, both of them beyond the half
C26_EarlierSentenceEndCut ==
    /\ Chunked
    /\ \E k \in 1..Len(response.windows) :
          /\ CutBeforeEnd(response, response.windows[k])
          /\ \E p, q \in Boundaries(response.text, response.windows[k].start,
                                    response.chunk_size, response.chunk_size \div 2 + 2) :
                /\ p < q
                /\ response.windows[k].end = p + 1

(***************************************************************************)
(* Properties of the admission of candidates by backend                    *)
(***************************************************************************)
\* the two stores hold the same corpus: every row of the table is a point of
\* the collection, as often, and the collection holds nothing else
SameCorpus ==
    /\ DOMAIN qdrant_points = {PointOf(row) : row \in DOMAIN document_chunks}
    /\ \A row \in DOMAIN document_chunks : qdrant_points[PointOf(row)] = document_chunks[row]

\* a hybrid_search over one corpus held by both stores, small enough for every
\* chunk of it to be among the 3 * limit nearest, both backends answering
SearchedOneCorpus ==
    /\ Searched
    /\ response.search.qdrant_ok
    /\ SameCorpus
    /\ BagCardinality(document_chunks) > 0
    /\ BagCardinality(document_chunks) <= 3 * response.search.limit

\* C27: hybrid_search admits a candidate by one rule, whichever backend supplies
\* it: over one corpus the results admitted from the relational store and those
\* admitted from the vector database are the same, so that the corpus held by
\* one backend alone gives the results it gives when held by the other alone.
C27_OneAdmissionRule ==
    SearchedOneCorpus =>
        Range(response.search.pg_scored) = Range(response.search.qdrant_scored)

\* a chunk whose combined score reaches min_score and whose semantic score does
\* not is admitted from the relational store and is not supplied by Qdrant
C27_AdmittedFromOneBackend ==
    /\ SearchedOneCorpus
    /\ \E k \in 1..Len(response.search.pg_scored) :
          /\ response.search.pg_scored[k].combined_score >= response.search.min_score
          /\ response.search.pg_scored[k].semantic_score * 10 < response.search.min_score
          /\ response.search.pg_scored[k] \notin Range(response.search.qdrant_scored)

(***************************************************************************)
(* Properties of the deletion of the source PDF                            *)
(***************************************************************************)
\* the background task of a document has run to its end and the PDF of the
\* document is no longer on disk
PdfDeletedByTask ==
    /\ response.op = "background_ingest_document"
    /\ response.status = "ok"
    /\ response.filename \notin FileNames

\* C29: background_ingest_document deletes the source PDF of a document that is
\* not a manual or qrg only after the chunks of the document are stored.  When
\* the task has deleted the PDF, the relational store and the vector database
\* hold chunks of the document, and when the ingestion stored nothing the PDF
\* is still on disk.
C29_PdfDeletedAfterChunksStored ==
    PdfDeletedByTask =>
        /\ response.count > 0
        /\ \E row \in DOMAIN document_chunks : row.document_name = response.filename
        /\ \E point \in DOMAIN qdrant_points :
              point.payload.document_name = response.filename

\* the task has deleted the PDF of a document of which neither store holds a chunk
C29_PdfDeletedNothingStored ==
    /\ PdfDeletedByTask
    /\ response.count = 0
    /\ \A row \in DOMAIN document_chunks : row.document_name # response.filename
    /\ \A point \in DOMAIN qdrant_points : point.payload.document_name # response.filename

====
